---- MODULE Spec2Model ----
(***************************************************************************)
(* Cooperative synchronization primitives of the concurrency library:      *)
(* Mutex, Semaphore, ReadWriteLock, their scoped helpers (withLock,        *)
(* withPermit, withReadLock, withWriteLock) and SafeBankAccount.transferTo *)
(* (ordered dual locking).                                                 *)
(*                                                                         *)
(* Scheduling is that of a single-threaded event loop: a task runs from    *)
(* one await to the next without interruption, so every action below is    *)
(* one such run.  An `await` always yields, also on an already resolved    *)
(* promise, so being granted a lock and resuming after it are two steps.   *)
(* The order in which runnable continuations and timers run is left open.  *)
(***************************************************************************)
EXTENDS Integers, Sequences, FiniteSets

\* ------------------------------------------------------------------ bounds
\* Number of tasks of a generic workload on one Mutex.
MutexTasks == 3
\* Number of tasks of a workload on one Semaphore.
SemTasks == 4
\* Largest permit count a Semaphore is constructed with.
MaxPermits == 2
\* Number of tasks of a workload on one ReadWriteLock.
RWTasks == 3
\* Largest number of concurrent bank operations.
BankTasks == 2
\* Number of tasks that call acquire() or release() directly.
SignalTasks == 4
\* Number of concurrent requests of one rate-limited client.
ClientTasks == 3
\* Largest number of 429 responses the server gives one request.
MaxRateLimited == 1
\* Number of concurrent clients of one DatabaseConnectionPool.
PoolTasks == 3
\* Balance of every account when the concurrent operations start.
OpeningBalance == 100
\* Number of concurrent transfers among three accounts.
TransferTasks == 3
\* Number of tasks sharing a semaphore in a workload that runs to its end.
FiniteTasks == 3
\* Number of transfers the simulation starts together.
SimulationTasks == 2
\* Number of clients that call executeQueryWithMutex together.
QueryTasks == 4
\* Number of deposits and withdrawals started together on one BankAccount.
AccountTasks == 3

VARIABLES
    op,          \* per task: what the task was started to do
    pc,          \* per task: where the task is suspended
    granted,     \* tasks whose pending lock()/acquire*() promise is resolved
    result,      \* per task: how its fn / operation settled
    current,     \* per task: the local `current` read inside deposit
    counter,     \* the shared variable of the Mutex examples (counter / balance)
    mutex,       \* per Mutex instance: [locked, waitQueue]
    semaphore,   \* the Semaphore: [permits, waitQueue]
    maxConcurrent, \* the permit count the Semaphore was constructed with
    rwLock,      \* the ReadWriteLock: [readers, writer, readWaitQueue, writeWaitQueue]
    balance,     \* per SafeBankAccount: its balance
    availableConnections, \* the pool's stack of idle connections
    inUse,       \* per DatabaseConnection: its inUse flag
    connection,  \* per task: the local `connection` of executeQuery (0: none)
    depth,       \* per task: the nested getUser/fetch callbacks it is inside
    waitLog,     \* history: lockers/acquirers/writers that had to queue, in order
    grantLog,    \* history: queued tasks in the order they were handed the lock/permit
    behind,      \* history: per reader, the writers that had queued and not yet
                 \* released when it called acquireRead
    releases     \* history: per task, how many times its scoped helper released

vars == << op, pc, granted, result, current, counter, mutex, semaphore,
           maxConcurrent, rwLock, balance, availableConnections, inUse, connection,
           depth,
           waitLog, grantLog, behind, releases >>

Tasks == DOMAIN pc

\* ------------------------------------------------------------------ Mutex
\* new Mutex(): locked = false, waitQueue = []
NewMutex == [locked |-> FALSE, waitQueue |-> << >>]

\* Each primitive operation yields the new state of the primitive and the
\* set of tasks whose promise it resolved.

\* Mutant of Lock: the caller is put at the front of the queue (unshift).
LockQueuesInFront(m, t) ==
    IF m.locked = FALSE
    THEN [state |-> [m EXCEPT !.locked = TRUE], woken |-> {t}]
    ELSE [state |-> [m EXCEPT !.waitQueue = << t >> \o @], woken |-> {}]

\* Mutant of Lock: the caller is never queued.
LockNeverWaits(m, t) ==
    [state |-> [m EXCEPT !.locked = TRUE], woken |-> {t}]

\* Mutant of Lock: the caller is queued also when the mutex is free.
LockAlwaysQueues(m, t) ==
    [state |-> [m EXCEPT !.waitQueue = Append(@, t)], woken |-> {}]

\* Mutex.lock() called by task t.
Lock(m, t) ==
    IF m.locked = FALSE
    THEN [state |-> [m EXCEPT !.locked = TRUE], woken |-> {t}]
    ELSE [state |-> [m EXCEPT !.waitQueue = Append(@, t)], woken |-> {}]

\* Mutant of Unlock: the queue is shifted without looking at its length, so
\* with nobody queued the value called is undefined (written 0, no task).
UnlockUnguarded(m) ==
    IF Len(m.waitQueue) > 0
    THEN [state |-> [m EXCEPT !.waitQueue = Tail(@)], woken |-> {Head(m.waitQueue)}]
    ELSE [state |-> m, woken |-> {0}]

\* Mutant of Unlock: the head waiter is removed but never resolved.
UnlockForgetsWaiter(m) ==
    IF Len(m.waitQueue) > 0
    THEN [state |-> [m EXCEPT !.waitQueue = Tail(@)], woken |-> {}]
    ELSE [state |-> [m EXCEPT !.locked = FALSE], woken |-> {}]

\* Mutant of Unlock: locked is cleared also when the lock is handed off.
UnlockFreesOnHandOff(m) ==
    IF Len(m.waitQueue) > 0
    THEN [state |-> [m EXCEPT !.waitQueue = Tail(@), !.locked = FALSE],
          woken |-> {Head(m.waitQueue)}]
    ELSE [state |-> [m EXCEPT !.locked = FALSE], woken |-> {}]

\* Mutex.unlock().
Unlock(m) ==
    IF Len(m.waitQueue) > 0
    THEN [state |-> [m EXCEPT !.waitQueue = Tail(@)], woken |-> {Head(m.waitQueue)}]
    ELSE [state |-> [m EXCEPT !.locked = FALSE], woken |-> {}]

\* ------------------------------------------------------------------ Semaphore
\* new Semaphore(permits)
NewSemaphore(n) == [permits |-> n, waitQueue |-> << >>]

\* Mutant of Acquire: the permit granted is not counted.
AcquireKeepsPermit(s, t) ==
    IF s.permits > 0
    THEN [state |-> s, woken |-> {t}]
    ELSE [state |-> [s EXCEPT !.waitQueue = Append(@, t)], woken |-> {}]

\* Mutant of Acquire: a permit is taken also when none is left.
AcquireAtZero(s, t) ==
    IF s.permits >= 0
    THEN [state |-> [s EXCEPT !.permits = @ - 1], woken |-> {t}]
    ELSE [state |-> [s EXCEPT !.waitQueue = Append(@, t)], woken |-> {}]

\* Semaphore.acquire() called by task t.
Acquire(s, t) ==
    IF s.permits > 0
    THEN [state |-> [s EXCEPT !.permits = @ - 1], woken |-> {t}]
    ELSE [state |-> [s EXCEPT !.waitQueue = Append(@, t)], woken |-> {}]

\* Mutant of Release: a free permit is not added to.
ReleaseSaturates(s) ==
    IF Len(s.waitQueue) > 0
    THEN [state |-> [s EXCEPT !.waitQueue = Tail(@)], woken |-> {Head(s.waitQueue)}]
    ELSE [state |-> [s EXCEPT !.permits = IF @ = 0 THEN 1 ELSE @], woken |-> {}]

\* Mutant of Release: waiters are not looked at.
ReleaseNeverWakes(s) ==
    [state |-> [s EXCEPT !.permits = @ + 1], woken |-> {}]

\* Mutant of Release: permits is incremented also when the permit is handed off.
ReleaseAlwaysIncrements(s) ==
    IF Len(s.waitQueue) > 0
    THEN [state |-> [s EXCEPT !.waitQueue = Tail(@), !.permits = @ + 1],
          woken |-> {Head(s.waitQueue)}]
    ELSE [state |-> [s EXCEPT !.permits = @ + 1], woken |-> {}]

\* Semaphore.release().
Release(s) ==
    IF Len(s.waitQueue) > 0
    THEN [state |-> [s EXCEPT !.waitQueue = Tail(@)], woken |-> {Head(s.waitQueue)}]
    ELSE [state |-> [s EXCEPT !.permits = @ + 1], woken |-> {}]

\* ------------------------------------------------------------------ ReadWriteLock
\* new ReadWriteLock()
NewReadWriteLock ==
    [readers |-> 0, writer |-> FALSE, readWaitQueue |-> << >>, writeWaitQueue |-> << >>]

\* Mutant of AcquireRead: a queued reader is counted as active at once.
AcquireReadCountsQueued(rw, t) ==
    IF ~rw.writer /\ Len(rw.writeWaitQueue) = 0
    THEN [state |-> [rw EXCEPT !.readers = @ + 1], woken |-> {t}]
    ELSE [state |-> [rw EXCEPT !.readers = @ + 1, !.readWaitQueue = Append(@, t)],
          woken |-> {}]

\* Mutant of AcquireRead: waiting writers are not looked at.
AcquireReadIgnoringQueue(rw, t) ==
    IF ~rw.writer
    THEN [state |-> [rw EXCEPT !.readers = @ + 1], woken |-> {t}]
    ELSE [state |-> [rw EXCEPT !.readWaitQueue = Append(@, t)], woken |-> {}]

\* ReadWriteLock.acquireRead() called by task t.
AcquireRead(rw, t) ==
    IF ~rw.writer /\ Len(rw.writeWaitQueue) = 0
    THEN [state |-> [rw EXCEPT !.readers = @ + 1], woken |-> {t}]
    ELSE [state |-> [rw EXCEPT !.readWaitQueue = Append(@, t)], woken |-> {}]

\* Mutant of ReleaseRead: the last reader leaves without waking a writer.
ReleaseReadNeverWakes(rw) ==
    [state |-> [rw EXCEPT !.readers = @ - 1], woken |-> {}]

\* Mutant of ReleaseRead: a queued writer is woken although readers remain.
ReleaseReadWakesEarly(rw) ==
    LET dec == [rw EXCEPT !.readers = @ - 1]
    IN  IF Len(dec.writeWaitQueue) > 0
        THEN [state |-> [dec EXCEPT !.writer = TRUE, !.writeWaitQueue = Tail(@)],
              woken |-> {Head(dec.writeWaitQueue)}]
        ELSE [state |-> dec, woken |-> {}]

\* ReadWriteLock.releaseRead().
ReleaseRead(rw) ==
    LET dec == [rw EXCEPT !.readers = @ - 1]
    IN  IF dec.readers = 0 /\ Len(dec.writeWaitQueue) > 0
        THEN [state |-> [dec EXCEPT !.writer = TRUE, !.writeWaitQueue = Tail(@)],
              woken |-> {Head(dec.writeWaitQueue)}]
        ELSE [state |-> dec, woken |-> {}]

\* Mutant of AcquireWrite: a waiting writer goes to the front of the queue.
AcquireWriteQueuesInFront(rw, t) ==
    IF ~rw.writer /\ rw.readers = 0
    THEN [state |-> [rw EXCEPT !.writer = TRUE], woken |-> {t}]
    ELSE [state |-> [rw EXCEPT !.writeWaitQueue = << t >> \o @], woken |-> {}]

\* Mutant of AcquireWrite: active readers are not looked at.
AcquireWriteIgnoringReaders(rw, t) ==
    IF ~rw.writer
    THEN [state |-> [rw EXCEPT !.writer = TRUE], woken |-> {t}]
    ELSE [state |-> [rw EXCEPT !.writeWaitQueue = Append(@, t)], woken |-> {}]

\* Mutant of AcquireWrite: the only active reader may take the write lock.
AcquireWriteSoleReader(rw, t) ==
    IF ~rw.writer /\ rw.readers <= 1
    THEN [state |-> [rw EXCEPT !.writer = TRUE], woken |-> {t}]
    ELSE [state |-> [rw EXCEPT !.writeWaitQueue = Append(@, t)], woken |-> {}]

\* ReadWriteLock.acquireWrite() called by task t.
AcquireWrite(rw, t) ==
    IF ~rw.writer /\ rw.readers = 0
    THEN [state |-> [rw EXCEPT !.writer = TRUE], woken |-> {t}]
    ELSE [state |-> [rw EXCEPT !.writeWaitQueue = Append(@, t)], woken |-> {}]

\* The loop of releaseWrite(): while the read queue is not empty, count one
\* more reader, shift the head and resolve it.
RECURSIVE DrainReaders(_, _)
DrainReaders(rw, woken) ==
    IF Len(rw.readWaitQueue) > 0
    THEN DrainReaders([rw EXCEPT !.readers = @ + 1, !.readWaitQueue = Tail(@)],
                      woken \cup {Head(rw.readWaitQueue)})
    ELSE [state |-> rw, woken |-> woken]

\* Mutant of ReleaseWrite: the drained readers are woken but not counted.
ReleaseWriteUncounted(rw) ==
    LET cleared == [rw EXCEPT !.writer = FALSE]
    IN  IF Len(cleared.writeWaitQueue) > 0
        THEN [state |-> [cleared EXCEPT !.writer = TRUE, !.writeWaitQueue = Tail(@)],
              woken |-> {Head(cleared.writeWaitQueue)}]
        ELSE [state |-> [cleared EXCEPT !.readWaitQueue = << >>],
              woken |-> {cleared.readWaitQueue[i] : i \in 1..Len(cleared.readWaitQueue)}]

\* Mutant of ReleaseWrite: queued readers are served before queued writers.
ReleaseWriteReadersFirst(rw) ==
    LET cleared == [rw EXCEPT !.writer = FALSE]
    IN  IF Len(cleared.readWaitQueue) > 0
        THEN DrainReaders(cleared, {})
        ELSE IF Len(cleared.writeWaitQueue) > 0
             THEN [state |-> [cleared EXCEPT !.writer = TRUE, !.writeWaitQueue = Tail(@)],
                   woken |-> {Head(cleared.writeWaitQueue)}]
             ELSE [state |-> cleared, woken |-> {}]

\* ReadWriteLock.releaseWrite().
ReleaseWrite(rw) ==
    LET cleared == [rw EXCEPT !.writer = FALSE]
    IN  IF Len(cleared.writeWaitQueue) > 0
        THEN [state |-> [cleared EXCEPT !.writer = TRUE, !.writeWaitQueue = Tail(@)],
              woken |-> {Head(cleared.writeWaitQueue)}]
        ELSE DrainReaders(cleared, {})

\* ------------------------------------------------------------------ workloads
\* The one Mutex of the examples (`const mutex = new Mutex()`).
TheMutex == "mutex"

\* runTasks: [10, 5, 2, 3].map(arg => mutex.withLock(() => increment(arg)))
IncrementArgs == << 10, 5, 2, 3 >>
RunTasks ==
    [t \in 1..Len(IncrementArgs) |->
        [with |-> "withLock", fn |-> "increment", arg |-> IncrementArgs[t]]]

\* runDeposits: deposit(100, "Agent A") ... deposit(400, "Agent D")
DepositAmounts == << 100, 200, 300, 400 >>
RunDeposits ==
    [t \in 1..Len(DepositAmounts) |->
        [with |-> "withLock", fn |-> "deposit", arg |-> DepositAmounts[t]]]

\* What a callback handed to a scoped helper may do:
\*   "increment"  update the shared variable in one run and return
\*   "deposit"    read the shared variable, await a timer, write it back, return
\*   "withdraw"   if the shared variable covers the amount: read it, await a
\*                timer, write it back less the amount, return true; else
\*                return false
\*   "task"       await a timer and return (the RateLimiter example)
\*   "get", "set" return at once (the cache operations)
\*   "fail"       throw
\*   "upgrade"    inside withReadLock: await rwLock.withWriteLock(updateData)
MutexFns == {"increment", "deposit", "fail"}
SemFns == {"task", "fail"}
ReadFns == {"get", "task", "fail"}
WriteFns == {"set", "fail"}

\* The Bank Account Example: deposit 100, deposit 50, withdraw 30, deposit
\* 25 and withdraw 20 on one BankAccount, whose balance starts at 0.
AccountOperations ==
    << [with |-> "withLock", fn |-> "deposit", arg |-> 100],
       [with |-> "withLock", fn |-> "deposit", arg |-> 50],
       [with |-> "withLock", fn |-> "withdraw", arg |-> 30],
       [with |-> "withLock", fn |-> "deposit", arg |-> 25],
       [with |-> "withLock", fn |-> "withdraw", arg |-> 20] >>

\* Any AccountTasks deposits and withdrawals on one BankAccount.
AccountWorkloads ==
    [1..AccountTasks ->
        {[with |-> "withLock", fn |-> f, arg |-> x] :
            f \in {"deposit", "withdraw"}, x \in {30, 50}}]

\* Any MutexTasks callers of mutex.withLock(fn).
MutexWorkloads ==
    [1..MutexTasks -> {[with |-> "withLock", fn |-> f, arg |-> 1] : f \in MutexFns}]

\* Any SemTasks callers of semaphore.withPermit(fn).
SemWorkloads ==
    [1..SemTasks -> {[with |-> "withPermit", fn |-> f, arg |-> 0] : f \in SemFns}]

\* The RateLimiter example: new RateLimiter(2) and
\* Array.from({ length: 5 }, ...) tasks that each await a timer.
RateLimiterPermits == 2
RateLimiterLength == 5
RateLimiterTasks ==
    [t \in 1..RateLimiterLength |-> [with |-> "withPermit", fn |-> "task", arg |-> 0]]

\* Any RWTasks callers of rwLock.withReadLock(fn) / rwLock.withWriteLock(fn).
RWWorkloads ==
    [1..RWTasks ->
        {[with |-> "withReadLock", fn |-> f, arg |-> 0] : f \in ReadFns}
        \cup {[with |-> "withWriteLock", fn |-> f, arg |-> 0] : f \in WriteFns}]

\* RWTasks callers of which at least one upgrades: it calls withWriteLock on
\* the same lock from inside its withReadLock callback.
UpgradeWorkloads ==
    {ops \in [1..RWTasks ->
                 {[with |-> "withReadLock", fn |-> f, arg |-> 0] :
                      f \in ReadFns \cup {"upgrade"}}
                 \cup {[with |-> "withWriteLock", fn |-> f, arg |-> 0] : f \in WriteFns}] :
        \E t \in 1..RWTasks : ops[t].fn = "upgrade"}

\* The state after construction, with the tasks of workload `ops` about to start.
Started(ops) ==
    /\ op = ops
    /\ pc = [t \in DOMAIN ops |-> "start"]
    /\ granted = {}
    /\ result = [t \in DOMAIN ops |-> "none"]
    /\ current = [t \in DOMAIN ops |-> 0]
    /\ connection = [t \in DOMAIN ops |-> 0]
    /\ depth = [t \in DOMAIN ops |-> 0]
    /\ counter = 0
    /\ waitLog = << >>
    /\ grantLog = << >>
    /\ behind = [t \in DOMAIN ops |-> {}]
    /\ releases = [t \in DOMAIN ops |-> 0]

InitMutex ==
    /\ \E ops \in {RunTasks, RunDeposits} \cup MutexWorkloads : Started(ops)
    /\ mutex = [m \in {TheMutex} |-> NewMutex]
    /\ maxConcurrent = 0
    /\ semaphore = NewSemaphore(maxConcurrent)
    /\ rwLock = NewReadWriteLock
    /\ availableConnections = << >>
    /\ inUse = << >>
    /\ balance = << >>

InitAccount ==
    /\ \E ops \in {AccountOperations} \cup AccountWorkloads : Started(ops)
    /\ mutex = [m \in {TheMutex} |-> NewMutex]
    /\ maxConcurrent = 0
    /\ semaphore = NewSemaphore(maxConcurrent)
    /\ rwLock = NewReadWriteLock
    /\ availableConnections = << >>
    /\ inUse = << >>
    /\ balance = << >>

InitSem ==
    /\ \/ /\ \E ops \in SemWorkloads : Started(ops)
          /\ maxConcurrent \in 0..MaxPermits
       \/ /\ Started(RateLimiterTasks)
          /\ maxConcurrent = RateLimiterPermits
    /\ mutex = [m \in {TheMutex} |-> NewMutex]
    /\ semaphore = NewSemaphore(maxConcurrent)
    /\ rwLock = NewReadWriteLock
    /\ availableConnections = << >>
    /\ inUse = << >>
    /\ balance = << >>

InitRW ==
    /\ \E ops \in RWWorkloads : Started(ops)
    /\ mutex = [m \in {TheMutex} |-> NewMutex]
    /\ maxConcurrent = 0
    /\ semaphore = NewSemaphore(maxConcurrent)
    /\ rwLock = NewReadWriteLock
    /\ availableConnections = << >>
    /\ inUse = << >>
    /\ balance = << >>

\* Any FiniteTasks callers of withPermit(fn) on a semaphore that has permits.
FinitePermitWorkloads ==
    [1..FiniteTasks -> {[with |-> "withPermit", fn |-> f, arg |-> 0] : f \in SemFns}]

\* One primitive and a finite workload on it: tasks on the Mutex, on a
\* Semaphore constructed with at least one permit, or readers and writers on
\* the ReadWriteLock.
InitFinite ==
    /\ \/ /\ \E ops \in MutexWorkloads \cup RWWorkloads : Started(ops)
          /\ maxConcurrent = 0
       \/ /\ \E ops \in FinitePermitWorkloads : Started(ops)
          /\ maxConcurrent \in 1..MaxPermits
    /\ mutex = [m \in {TheMutex} |-> NewMutex]
    /\ semaphore = NewSemaphore(maxConcurrent)
    /\ rwLock = NewReadWriteLock
    /\ availableConnections = << >>
    /\ inUse = << >>
    /\ balance = << >>

\* RWTasks callers whose callbacks return: readers that return at once or
\* after a timer, and writers.
ReaderWorkloads ==
    [1..RWTasks ->
        {[with |-> "withReadLock", fn |-> f, arg |-> 0] : f \in {"get", "task"}}
        \cup {[with |-> "withWriteLock", fn |-> "set", arg |-> 0]}]

InitReaders ==
    /\ \E ops \in ReaderWorkloads : Started(ops)
    /\ mutex = [m \in {TheMutex} |-> NewMutex]
    /\ maxConcurrent = 0
    /\ semaphore = NewSemaphore(maxConcurrent)
    /\ rwLock = NewReadWriteLock
    /\ availableConnections = << >>
    /\ inUse = << >>
    /\ balance = << >>

\* A continuous writer backlog: RWTasks callers, at least two of them writers
\* whose work awaits a timer, and at least one reader.
BacklogWorkloads ==
    {ops \in [1..RWTasks ->
                 {[with |-> "withReadLock", fn |-> "get", arg |-> 0],
                  [with |-> "withWriteLock", fn |-> "task", arg |-> 0]}] :
        /\ \E r \in 1..RWTasks : ops[r].with = "withReadLock"
        /\ \E v, w \in 1..RWTasks :
              v # w /\ ops[v].with = "withWriteLock" /\ ops[w].with = "withWriteLock"}

InitBacklog ==
    /\ \E ops \in BacklogWorkloads : Started(ops)
    /\ mutex = [m \in {TheMutex} |-> NewMutex]
    /\ maxConcurrent = 0
    /\ semaphore = NewSemaphore(maxConcurrent)
    /\ rwLock = NewReadWriteLock
    /\ availableConnections = << >>
    /\ inUse = << >>
    /\ balance = << >>

InitUpgrade ==
    /\ \E ops \in UpgradeWorkloads : Started(ops)
    /\ mutex = [m \in {TheMutex} |-> NewMutex]
    /\ maxConcurrent = 0
    /\ semaphore = NewSemaphore(maxConcurrent)
    /\ rwLock = NewReadWriteLock
    /\ availableConnections = << >>
    /\ inUse = << >>
    /\ balance = << >>

\* SignalTasks tasks each of which calls acquire() or release() once on a
\* Semaphore constructed with 0 or more permits.
SignalWorkloads ==
    [1..SignalTasks -> {[with |-> w, fn |-> "none", arg |-> 0] : w \in {"acquire", "release"}}]
InitSignal ==
    /\ \E ops \in SignalWorkloads : Started(ops)
    /\ maxConcurrent \in 0..MaxPermits
    /\ semaphore = NewSemaphore(maxConcurrent)
    /\ mutex = [m \in {TheMutex} |-> NewMutex]
    /\ rwLock = NewReadWriteLock
    /\ availableConnections = << >>
    /\ inUse = << >>
    /\ balance = << >>

\* RWTasks tasks each of which calls acquireRead(), releaseRead(),
\* acquireWrite() or releaseWrite() once on one ReadWriteLock, in any order
\* and unpaired.
RWCallWorkloads ==
    [1..RWTasks ->
        {[with |-> w, fn |-> "none", arg |-> 0] :
            w \in {"acquireRead", "releaseRead", "acquireWrite", "releaseWrite"}}]
InitRWCalls ==
    /\ \E ops \in RWCallWorkloads : Started(ops)
    /\ mutex = [m \in {TheMutex} |-> NewMutex]
    /\ maxConcurrent = 0
    /\ semaphore = NewSemaphore(maxConcurrent)
    /\ rwLock = NewReadWriteLock
    /\ availableConnections = << >>
    /\ inUse = << >>
    /\ balance = << >>

\* A rate-limited client (GitHubAPIClient, SmartHTTPClient) with its
\* Semaphore, and ClientTasks concurrent getUser/fetch calls; arg is the
\* number of 429 responses the server gives the request before it answers
\* with another status.
ClientRequests ==
    [1..ClientTasks ->
        {[with |-> "getUser", fn |-> "fetch", arg |-> n] : n \in 0..MaxRateLimited}]
InitClient ==
    /\ \E ops \in ClientRequests : Started(ops)
    /\ maxConcurrent \in 1..MaxPermits
    /\ semaphore = NewSemaphore(maxConcurrent)
    /\ mutex = [m \in {TheMutex} |-> NewMutex]
    /\ rwLock = NewReadWriteLock
    /\ availableConnections = << >>
    /\ inUse = << >>
    /\ balance = << >>

\* SignalTasks tasks each of which calls lock() or unlock() once on one
\* Mutex, in any order and unpaired.
LockWorkloads ==
    [1..SignalTasks -> {[with |-> w, fn |-> "none", arg |-> 0] : w \in {"lock", "unlock"}}]
InitLockCalls ==
    /\ \E ops \in LockWorkloads : Started(ops)
    /\ mutex = [m \in {TheMutex} |-> NewMutex]
    /\ maxConcurrent = 0
    /\ semaphore = NewSemaphore(maxConcurrent)
    /\ rwLock = NewReadWriteLock
    /\ availableConnections = << >>
    /\ inUse = << >>
    /\ balance = << >>

\* new DatabaseConnectionPool(maxConnections): connections 1..maxConnections,
\* all idle, none in use, and a Semaphore with as many permits; PoolTasks
\* clients call executeQuery.
PoolClients ==
    [t \in 1..PoolTasks |-> [with |-> "withPermit", fn |-> "query", arg |-> 0]]
InitPool ==
    /\ Started(PoolClients)
    /\ maxConcurrent \in 1..MaxPermits
    /\ semaphore = NewSemaphore(maxConcurrent)
    /\ availableConnections = [i \in 1..maxConcurrent |-> i]
    /\ inUse = [c \in 1..maxConcurrent |-> FALSE]
    /\ mutex = [m \in {TheMutex} |-> NewMutex]
    /\ rwLock = NewReadWriteLock
    /\ balance = << >>

\* new MutexDatabasePool(maxConnections): connections 1..maxConnections, none
\* in use; QueryTasks clients call executeQueryWithMutex together.
MutexPoolClients ==
    [t \in 1..QueryTasks |-> [with |-> "executeQueryWithMutex", fn |-> "query", arg |-> 0]]
InitMutexPool ==
    /\ Started(MutexPoolClients)
    /\ maxConcurrent \in 1..MaxPermits
    /\ semaphore = NewSemaphore(maxConcurrent)
    /\ availableConnections = << >>
    /\ inUse = [c \in 1..maxConcurrent |-> FALSE]
    /\ mutex = [m \in {TheMutex} |-> NewMutex]
    /\ rwLock = NewReadWriteLock
    /\ balance = << >>

\* ------------------------------------------------------------------ scoped helpers
\* Mutant of Finally: the release follows `await fn()` without a finally block.
ReleaseOnlyOnReturn(outcome) == outcome = "returned"

\* try { return await fn(); } finally { release }: the release runs however
\* fn settled.
Finally(outcome) == outcome \in {"returned", "threw"}

\* The log of hand-offs: the queue head a release resolved, if any.
Handed(log, woken) ==
    IF woken = {} THEN log ELSE Append(log, CHOOSE t \in woken : TRUE)

\* The log of callers that found the primitive unavailable and were queued.
Queued(log, woken, t) ==
    IF woken = {} THEN Append(log, t) ELSE log

\* withLock: `await this.lock()`.
WithLockBegin(t) ==
    /\ pc[t] = "start" /\ op[t].with = "withLock"
    /\ LET r == Lock(mutex[TheMutex], t)
       IN  /\ mutex' = [mutex EXCEPT ![TheMutex] = r.state]
           /\ granted' = granted \cup r.woken
           /\ waitLog' = Queued(waitLog, r.woken, t)
    /\ pc' = [pc EXCEPT ![t] = "acquiring"]
    /\ UNCHANGED << op, depth, availableConnections, inUse, connection, result, current, counter, semaphore, maxConcurrent, rwLock, balance,
                    grantLog, behind, releases >>

\* withLock: fn has settled, `finally { this.unlock() }`, then the result or
\* the error reaches the caller.
WithLockFinally(t) ==
    /\ pc[t] = "settled" /\ op[t].with = "withLock"
    /\ IF Finally(result[t])
       THEN LET r == Unlock(mutex[TheMutex])
            IN  /\ mutex' = [mutex EXCEPT ![TheMutex] = r.state]
                /\ granted' = granted \cup r.woken
                /\ grantLog' = Handed(grantLog, r.woken)
                /\ releases' = [releases EXCEPT ![t] = @ + 1]
       ELSE UNCHANGED << mutex, granted, grantLog, releases >>
    /\ pc' = [pc EXCEPT ![t] = "done"]
    /\ UNCHANGED << op, depth, availableConnections, inUse, connection, result, current, counter, semaphore, maxConcurrent, rwLock, balance,
                    waitLog, behind >>

\* withPermit: `await this.acquire()`.
WithPermitBegin(t) ==
    /\ pc[t] = "start" /\ op[t].with = "withPermit"
    /\ LET r == Acquire(semaphore, t)
       IN  /\ semaphore' = r.state
           /\ granted' = granted \cup r.woken
           /\ waitLog' = Queued(waitLog, r.woken, t)
    /\ pc' = [pc EXCEPT ![t] = "acquiring"]
    /\ UNCHANGED << op, depth, availableConnections, inUse, connection, result, current, counter, mutex, maxConcurrent, rwLock, balance,
                    grantLog, behind, releases >>

\* withPermit: `finally { this.release() }`.
WithPermitFinally(t) ==
    /\ pc[t] = "settled" /\ op[t].with = "withPermit"
    /\ IF Finally(result[t])
       THEN LET r == Release(semaphore)
            IN  /\ semaphore' = r.state
                /\ granted' = granted \cup r.woken
                /\ grantLog' = Handed(grantLog, r.woken)
                /\ releases' = [releases EXCEPT ![t] = @ + 1]
       ELSE UNCHANGED << semaphore, granted, grantLog, releases >>
    /\ pc' = [pc EXCEPT ![t] = "done"]
    /\ UNCHANGED << op, depth, availableConnections, inUse, connection, result, current, counter, mutex, maxConcurrent, rwLock, balance,
                    waitLog, behind >>

\* `await semaphore.acquire()` called directly.
AcquireCall(t) ==
    /\ pc[t] = "start" /\ op[t].with = "acquire"
    /\ LET r == Acquire(semaphore, t)
       IN  /\ semaphore' = r.state
           /\ granted' = granted \cup r.woken
           /\ waitLog' = Queued(waitLog, r.woken, t)
    /\ pc' = [pc EXCEPT ![t] = "acquiring"]
    /\ UNCHANGED << op, depth, availableConnections, inUse, connection, result, current, counter,
                    mutex, maxConcurrent, rwLock, balance, grantLog, behind, releases >>

\* The caller resumes after `await semaphore.acquire()`.
AcquireReturn(t) ==
    /\ pc[t] = "acquiring" /\ t \in granted /\ op[t].with = "acquire"
    /\ granted' = granted \ {t}
    /\ pc' = [pc EXCEPT ![t] = "done"]
    /\ UNCHANGED << op, depth, availableConnections, inUse, connection, result, current, counter,
                    mutex, semaphore, maxConcurrent, rwLock, balance, waitLog, grantLog,
                    behind, releases >>

\* `semaphore.release()` called directly.
ReleaseCall(t) ==
    /\ pc[t] = "start" /\ op[t].with = "release"
    /\ LET r == Release(semaphore)
       IN  /\ semaphore' = r.state
           /\ granted' = granted \cup r.woken
           /\ grantLog' = Handed(grantLog, r.woken)
    /\ releases' = [releases EXCEPT ![t] = @ + 1]
    /\ pc' = [pc EXCEPT ![t] = "done"]
    /\ UNCHANGED << op, depth, availableConnections, inUse, connection, result, current, counter,
                    mutex, maxConcurrent, rwLock, balance, waitLog, behind >>

\* `await rwLock.acquireRead()` called directly.
AcquireReadCall(t) ==
    /\ pc[t] = "start" /\ op[t].with = "acquireRead"
    /\ LET r == AcquireRead(rwLock, t)
       IN  /\ rwLock' = r.state
           /\ granted' = granted \cup r.woken
    /\ pc' = [pc EXCEPT ![t] = "acquiring"]
    /\ UNCHANGED << op, depth, availableConnections, inUse, connection, result, current, counter,
                    mutex, semaphore, maxConcurrent, balance, waitLog, grantLog, behind, releases >>

\* `await rwLock.acquireWrite()` called directly.
AcquireWriteCall(t) ==
    /\ pc[t] = "start" /\ op[t].with = "acquireWrite"
    /\ LET r == AcquireWrite(rwLock, t)
       IN  /\ rwLock' = r.state
           /\ granted' = granted \cup r.woken
    /\ pc' = [pc EXCEPT ![t] = "acquiring"]
    /\ UNCHANGED << op, depth, availableConnections, inUse, connection, result, current, counter,
                    mutex, semaphore, maxConcurrent, balance, waitLog, grantLog, behind, releases >>

\* The caller resumes after `await rwLock.acquireRead()` or acquireWrite().
ReadWriteReturn(t) ==
    /\ pc[t] = "acquiring" /\ t \in granted
    /\ op[t].with \in {"acquireRead", "acquireWrite"}
    /\ granted' = granted \ {t}
    /\ pc' = [pc EXCEPT ![t] = "done"]
    /\ UNCHANGED << op, depth, availableConnections, inUse, connection, result, current, counter,
                    mutex, semaphore, maxConcurrent, rwLock, balance, waitLog, grantLog,
                    behind, releases >>

\* `rwLock.releaseRead()` called directly.
ReleaseReadCall(t) ==
    /\ pc[t] = "start" /\ op[t].with = "releaseRead"
    /\ LET r == ReleaseRead(rwLock)
       IN  /\ rwLock' = r.state
           /\ granted' = granted \cup r.woken
    /\ pc' = [pc EXCEPT ![t] = "done"]
    /\ UNCHANGED << op, depth, availableConnections, inUse, connection, result, current, counter,
                    mutex, semaphore, maxConcurrent, balance, waitLog, grantLog, behind, releases >>

\* `rwLock.releaseWrite()` called directly.
ReleaseWriteCall(t) ==
    /\ pc[t] = "start" /\ op[t].with = "releaseWrite"
    /\ LET r == ReleaseWrite(rwLock)
       IN  /\ rwLock' = r.state
           /\ granted' = granted \cup r.woken
    /\ pc' = [pc EXCEPT ![t] = "done"]
    /\ UNCHANGED << op, depth, availableConnections, inUse, connection, result, current, counter,
                    mutex, semaphore, maxConcurrent, balance, waitLog, grantLog, behind, releases >>

\* `await mutex.lock()` called directly.
LockCall(t) ==
    /\ pc[t] = "start" /\ op[t].with = "lock"
    /\ LET r == Lock(mutex[TheMutex], t)
       IN  /\ mutex' = [mutex EXCEPT ![TheMutex] = r.state]
           /\ granted' = granted \cup r.woken
           /\ waitLog' = Queued(waitLog, r.woken, t)
    /\ pc' = [pc EXCEPT ![t] = "acquiring"]
    /\ UNCHANGED << op, depth, availableConnections, inUse, connection, result, current,
                    counter, semaphore, maxConcurrent, rwLock, balance, grantLog, behind,
                    releases >>

\* The caller resumes after `await mutex.lock()`.
LockReturn(t) ==
    /\ pc[t] = "acquiring" /\ t \in granted /\ op[t].with = "lock"
    /\ granted' = granted \ {t}
    /\ pc' = [pc EXCEPT ![t] = "done"]
    /\ UNCHANGED << op, depth, availableConnections, inUse, connection, result, current,
                    counter, mutex, semaphore, maxConcurrent, rwLock, balance, waitLog,
                    grantLog, behind, releases >>

\* `mutex.unlock()` called directly.
UnlockCall(t) ==
    /\ pc[t] = "start" /\ op[t].with = "unlock"
    /\ LET r == Unlock(mutex[TheMutex])
       IN  /\ mutex' = [mutex EXCEPT ![TheMutex] = r.state]
           /\ granted' = granted \cup r.woken
           /\ grantLog' = Handed(grantLog, r.woken)
    /\ releases' = [releases EXCEPT ![t] = @ + 1]
    /\ pc' = [pc EXCEPT ![t] = "done"]
    /\ UNCHANGED << op, depth, availableConnections, inUse, connection, result, current,
                    counter, semaphore, maxConcurrent, rwLock, balance, waitLog, behind >>

\* The elements of a queue.
Range(q) == {q[i] : i \in 1..Len(q)}

\* withReadLock: `await this.acquireRead()`.
WithReadLockBegin(t) ==
    /\ pc[t] = "start" /\ op[t].with = "withReadLock"
    /\ LET r == AcquireRead(rwLock, t)
       IN  /\ rwLock' = r.state
           /\ granted' = granted \cup r.woken
    /\ behind' = [behind EXCEPT ![t] = {w \in Range(waitLog) : releases[w] = 0}]
    /\ pc' = [pc EXCEPT ![t] = "acquiring"]
    /\ UNCHANGED << op, depth, availableConnections, inUse, connection, result, current, counter, mutex, semaphore, maxConcurrent, balance,
                    waitLog, grantLog, releases >>

\* withReadLock: `finally { this.releaseRead() }`.
WithReadLockFinally(t) ==
    /\ pc[t] = "settled" /\ op[t].with = "withReadLock"
    /\ IF Finally(result[t])
       THEN LET r == ReleaseRead(rwLock)
            IN  /\ rwLock' = r.state
                /\ granted' = granted \cup r.woken
                /\ releases' = [releases EXCEPT ![t] = @ + 1]
       ELSE UNCHANGED << rwLock, granted, releases >>
    /\ pc' = [pc EXCEPT ![t] = "done"]
    /\ UNCHANGED << op, depth, availableConnections, inUse, connection, result, current, counter, mutex, semaphore, maxConcurrent, balance,
                    waitLog, grantLog, behind >>

\* withWriteLock: `await this.acquireWrite()`.
WithWriteLockBegin(t) ==
    /\ pc[t] = "start" /\ op[t].with = "withWriteLock"
    /\ LET r == AcquireWrite(rwLock, t)
       IN  /\ rwLock' = r.state
           /\ granted' = granted \cup r.woken
           /\ waitLog' = Queued(waitLog, r.woken, t)
    /\ pc' = [pc EXCEPT ![t] = "acquiring"]
    /\ UNCHANGED << op, depth, availableConnections, inUse, connection, result, current, counter, mutex, semaphore, maxConcurrent,
                    balance, grantLog, behind, releases >>

\* withWriteLock: `finally { this.releaseWrite() }`.
WithWriteLockFinally(t) ==
    /\ pc[t] = "settled" /\ op[t].with = "withWriteLock"
    /\ IF Finally(result[t])
       THEN LET r == ReleaseWrite(rwLock)
            IN  /\ rwLock' = r.state
                /\ granted' = granted \cup r.woken
                /\ releases' = [releases EXCEPT ![t] = @ + 1]
       ELSE UNCHANGED << rwLock, granted, releases >>
    /\ pc' = [pc EXCEPT ![t] = "done"]
    /\ UNCHANGED << op, depth, availableConnections, inUse, connection, result, current, counter, mutex, semaphore, maxConcurrent, balance,
                    waitLog, grantLog, behind >>

\* A reader that is through calls withReadLock again: readers keep arriving.
ReaderAgain(t) ==
    /\ pc[t] = "done" /\ op[t].with = "withReadLock"
    /\ pc' = [pc EXCEPT ![t] = "start"]
    /\ result' = [result EXCEPT ![t] = "none"]
    /\ behind' = [behind EXCEPT ![t] = {}]
    /\ releases' = [releases EXCEPT ![t] = 0]
    /\ UNCHANGED << op, depth, availableConnections, inUse, connection, granted, current, counter, mutex, semaphore, maxConcurrent,
                    rwLock, balance, waitLog, grantLog >>

\* A writer that is through calls withWriteLock again: writers keep arriving.
\* The log of queued callers keeps the calls in progress only.
WriterAgain(t) ==
    /\ pc[t] = "done" /\ op[t].with = "withWriteLock"
    /\ pc' = [pc EXCEPT ![t] = "start"]
    /\ result' = [result EXCEPT ![t] = "none"]
    /\ releases' = [releases EXCEPT ![t] = 0]
    /\ waitLog' = SelectSeq(waitLog, LAMBDA u : u # t)
    /\ UNCHANGED << op, depth, availableConnections, inUse, connection, granted, current, counter, mutex, semaphore, maxConcurrent,
                    rwLock, balance, grantLog, behind >>

\* The helpers whose callback is one of the fns above.
Helpers == {"withLock", "withPermit", "withReadLock", "withWriteLock"}

\* The task resumes after `await acquire` and runs fn up to its first await
\* or to its end.
FnStart(t) ==
    /\ pc[t] = "acquiring" /\ t \in granted /\ op[t].with \in Helpers
    /\ op[t].fn \notin {"upgrade", "query"}
    /\ granted' = granted \ {t}
    /\ CASE op[t].fn = "increment" ->
              /\ counter' = counter + op[t].arg
              /\ pc' = [pc EXCEPT ![t] = "settled"]
              /\ result' = [result EXCEPT ![t] = "returned"]
              /\ UNCHANGED current
         [] op[t].fn = "deposit" ->
              /\ current' = [current EXCEPT ![t] = counter]
              /\ pc' = [pc EXCEPT ![t] = "suspended"]
              /\ UNCHANGED << counter, result >>
         [] op[t].fn = "withdraw" ->
              IF counter >= op[t].arg
              THEN /\ current' = [current EXCEPT ![t] = counter]
                   /\ pc' = [pc EXCEPT ![t] = "suspended"]
                   /\ UNCHANGED << counter, result >>
              ELSE /\ pc' = [pc EXCEPT ![t] = "settled"]
                   /\ result' = [result EXCEPT ![t] = "returned"]
                   /\ UNCHANGED << counter, current >>
         [] op[t].fn = "task" ->
              /\ pc' = [pc EXCEPT ![t] = "suspended"]
              /\ UNCHANGED << counter, result, current >>
         [] op[t].fn \in {"get", "set"} ->
              /\ pc' = [pc EXCEPT ![t] = "settled"]
              /\ result' = [result EXCEPT ![t] = "returned"]
              /\ UNCHANGED << counter, current >>
         [] op[t].fn = "fail" ->
              /\ pc' = [pc EXCEPT ![t] = "settled"]
              /\ result' = [result EXCEPT ![t] = "threw"]
              /\ UNCHANGED << counter, current >>
    /\ UNCHANGED << op, depth, availableConnections, inUse, connection, mutex, semaphore, maxConcurrent, rwLock, balance, waitLog, grantLog,
                    behind, releases >>

\* The timer fn awaited fires and fn runs to its end.
FnResume(t) ==
    /\ pc[t] = "suspended" /\ op[t].with \in Helpers /\ op[t].fn # "query"
    /\ IF op[t].fn = "deposit"
       THEN counter' = current[t] + op[t].arg
       ELSE IF op[t].fn = "withdraw"
            THEN counter' = current[t] - op[t].arg
            ELSE UNCHANGED counter
    /\ pc' = [pc EXCEPT ![t] = "settled"]
    /\ result' = [result EXCEPT ![t] = "returned"]
    /\ UNCHANGED << op, depth, availableConnections, inUse, connection, granted, current, mutex, semaphore, maxConcurrent, rwLock, balance,
                    waitLog, grantLog, behind, releases >>

\* The timer fn awaited fires under a writer backlog: the work of the active
\* writer lasts until another writer has queued.
BacklogResume(t) ==
    /\ op[t].with = "withWriteLock" => Len(rwLock.writeWaitQueue) > 0
    /\ FnResume(t)

\* The callback of the upgrade pattern, run by a task holding a read lock:
\*   resumed with the read lock, it calls withWriteLock, which awaits
\*     acquireWrite() on the same lock;
\*   resumed with the write lock, updateData() runs and returns;
\*   then the inner `finally { this.releaseWrite() }`, and the callback returns.
Upgrade(t) ==
    /\ op[t].with = "withReadLock" /\ op[t].fn = "upgrade"
    /\ CASE pc[t] = "acquiring" /\ t \in granted ->
              LET r == AcquireWrite(rwLock, t)
              IN  /\ rwLock' = r.state
                  /\ granted' = (granted \ {t}) \cup r.woken
                  /\ waitLog' = Queued(waitLog, r.woken, t)
                  /\ pc' = [pc EXCEPT ![t] = "upgrading"]
                  /\ UNCHANGED result
         [] pc[t] = "upgrading" /\ t \in granted ->
              /\ granted' = granted \ {t}
              /\ pc' = [pc EXCEPT ![t] = "upgraded"]
              /\ UNCHANGED << rwLock, waitLog, result >>
         [] pc[t] = "upgraded" ->
              LET r == ReleaseWrite(rwLock)
              IN  /\ rwLock' = r.state
                  /\ granted' = granted \cup r.woken
                  /\ pc' = [pc EXCEPT ![t] = "settled"]
                  /\ result' = [result EXCEPT ![t] = "returned"]
                  /\ UNCHANGED waitLog
         [] OTHER -> FALSE
    /\ UNCHANGED << op, depth, availableConnections, inUse, connection, current, counter, mutex, semaphore, maxConcurrent, balance,
                    grantLog, behind, releases >>

\* ------------------------------------------------------------------ rate-limited clients
\* getUser / fetch: `semaphore.withPermit(...)` awaits acquire().
GetUser(t) ==
    /\ pc[t] = "start" /\ op[t].with = "getUser"
    /\ LET r == Acquire(semaphore, t)
       IN  /\ semaphore' = r.state
           /\ granted' = granted \cup r.woken
           /\ waitLog' = Queued(waitLog, r.woken, t)
    /\ pc' = [pc EXCEPT ![t] = "acquiring"]
    /\ UNCHANGED << op, depth, availableConnections, inUse, connection, result, current,
                    counter, mutex, maxConcurrent, rwLock, balance, grantLog, behind,
                    releases >>

\* Resumed with a permit: the callback starts and awaits fetch(url).
Fetch(t) ==
    /\ pc[t] = "acquiring" /\ t \in granted /\ op[t].with = "getUser"
    /\ granted' = granted \ {t}
    /\ depth' = [depth EXCEPT ![t] = @ + 1]
    /\ pc' = [pc EXCEPT ![t] = "fetching"]
    /\ UNCHANGED << op, availableConnections, inUse, connection, result, current,
                    counter, mutex, semaphore, maxConcurrent, rwLock, balance, waitLog,
                    grantLog, behind, releases >>

\* The response arrives: on status 429 the callback awaits sleep(...), else
\* it returns the data.
Response(t) ==
    /\ pc[t] = "fetching"
    /\ IF depth[t] <= op[t].arg
       THEN /\ pc' = [pc EXCEPT ![t] = "sleeping"]
            /\ UNCHANGED result
       ELSE /\ pc' = [pc EXCEPT ![t] = "settled"]
            /\ result' = [result EXCEPT ![t] = "returned"]
    /\ UNCHANGED << op, depth, availableConnections, inUse, connection, granted, current,
                    counter, mutex, semaphore, maxConcurrent, rwLock, balance, waitLog,
                    grantLog, behind, releases >>

\* The sleep is over: `return this.getUser(username)` from inside the
\* callback, which still holds its permit; the nested call awaits acquire().
Retry(t) ==
    /\ pc[t] = "sleeping"
    /\ LET r == Acquire(semaphore, t)
       IN  /\ semaphore' = r.state
           /\ granted' = granted \cup r.woken
           /\ waitLog' = Queued(waitLog, r.woken, t)
    /\ pc' = [pc EXCEPT ![t] = "acquiring"]
    /\ UNCHANGED << op, depth, availableConnections, inUse, connection, result, current,
                    counter, mutex, maxConcurrent, rwLock, balance, grantLog, behind,
                    releases >>

\* A callback has settled: its withPermit runs `finally { this.release() }`;
\* the enclosing callback, if any, settles with the same result.
GetUserFinally(t) ==
    /\ pc[t] = "settled" /\ op[t].with = "getUser"
    /\ IF Finally(result[t])
       THEN LET r == Release(semaphore)
            IN  /\ semaphore' = r.state
                /\ granted' = granted \cup r.woken
                /\ grantLog' = Handed(grantLog, r.woken)
                /\ releases' = [releases EXCEPT ![t] = @ + 1]
       ELSE UNCHANGED << semaphore, granted, grantLog, releases >>
    /\ depth' = [depth EXCEPT ![t] = @ - 1]
    /\ pc' = [pc EXCEPT ![t] = IF depth[t] = 1 THEN "done" ELSE "settled"]
    /\ UNCHANGED << op, availableConnections, inUse, connection, result, current,
                    counter, mutex, maxConcurrent, rwLock, balance, waitLog, behind >>

\* ------------------------------------------------------------------ DatabaseConnectionPool
\* Mutant of ReturnConnection: the pool's first connection is pushed back,
\* whichever was popped.
ReturnFirstConnection(available, c) == Append(available, 1)

\* Mutant of ReturnConnection: the connection is not pushed back.
ConnectionNotReturned(available, c) == available

\* finally { this.availableConnections.push(connection) }
ReturnConnection(available, c) == Append(available, c)

\* The callback of executeQuery up to its first await: pop a connection,
\* throw if there is none, else call connection.query, which throws if the
\* connection is in use and else marks it and awaits the query timer.
QueryStart(t) ==
    /\ pc[t] = "acquiring" /\ t \in granted /\ op[t].fn = "query"
    /\ granted' = granted \ {t}
    /\ IF Len(availableConnections) = 0
       THEN /\ pc' = [pc EXCEPT ![t] = "settled"]
            /\ result' = [result EXCEPT ![t] = "threw"]
            /\ UNCHANGED << availableConnections, inUse, connection >>
       ELSE LET c == availableConnections[Len(availableConnections)]
            IN  /\ availableConnections' =
                      SubSeq(availableConnections, 1, Len(availableConnections) - 1)
                /\ connection' = [connection EXCEPT ![t] = c]
                /\ IF inUse[c]
                   THEN /\ pc' = [pc EXCEPT ![t] = "queried"]
                        /\ result' = [result EXCEPT ![t] = "threw"]
                        /\ UNCHANGED inUse
                   ELSE /\ inUse' = [inUse EXCEPT ![c] = TRUE]
                        /\ pc' = [pc EXCEPT ![t] = "suspended"]
                        /\ UNCHANGED result
    /\ UNCHANGED << op, depth, current, counter, mutex, semaphore, maxConcurrent, rwLock,
                    balance, waitLog, grantLog, behind, releases >>

\* The query timer fires: connection.query clears inUse and returns.
QueryResume(t) ==
    /\ pc[t] = "suspended" /\ op[t].fn = "query"
    /\ inUse' = [inUse EXCEPT ![connection[t]] = FALSE]
    /\ result' = [result EXCEPT ![t] = "returned"]
    /\ pc' = [pc EXCEPT ![t] = "queried"]
    /\ UNCHANGED << op, depth, granted, current, counter, mutex, semaphore, maxConcurrent,
                    rwLock, balance, availableConnections, connection,
                    waitLog, grantLog, behind, releases >>

\* The callback resumes after `await connection.query(sql)`: its finally
\* block returns the connection and the callback settles.
QueryReturn(t) ==
    /\ pc[t] = "queried" /\ op[t].fn = "query"
    /\ availableConnections' = ReturnConnection(availableConnections, connection[t])
    /\ pc' = [pc EXCEPT ![t] = "settled"]
    /\ UNCHANGED << op, depth, granted, result, current, counter, mutex, semaphore,
                    maxConcurrent, rwLock, balance, inUse, connection,
                    waitLog, grantLog, behind, releases >>

\* MutexDatabasePool.executeQueryWithMutex up to its first await: it takes
\* this.connections[0] and calls connection.query, which throws if the
\* connection is in use and else marks it and awaits the query timer.
ExecuteQueryWithMutex(t) ==
    /\ pc[t] = "start" /\ op[t].with = "executeQueryWithMutex"
    /\ connection' = [connection EXCEPT ![t] = 1]
    /\ IF inUse[1]
       THEN /\ pc' = [pc EXCEPT ![t] = "queried"]
            /\ result' = [result EXCEPT ![t] = "threw"]
            /\ UNCHANGED inUse
       ELSE /\ inUse' = [inUse EXCEPT ![1] = TRUE]
            /\ pc' = [pc EXCEPT ![t] = "suspended"]
            /\ UNCHANGED result
    /\ UNCHANGED << op, depth, granted, current, counter, mutex, semaphore, maxConcurrent,
                    rwLock, balance, availableConnections, waitLog, grantLog, behind, releases >>

\* The query timer fires: connection.query clears inUse and returns.
ExecuteQueryResume(t) ==
    /\ pc[t] = "suspended" /\ op[t].with = "executeQueryWithMutex"
    /\ inUse' = [inUse EXCEPT ![connection[t]] = FALSE]
    /\ result' = [result EXCEPT ![t] = "returned"]
    /\ pc' = [pc EXCEPT ![t] = "queried"]
    /\ UNCHANGED connection
    /\ UNCHANGED << op, depth, granted, current, counter, mutex, semaphore, maxConcurrent,
                    rwLock, balance, availableConnections, waitLog, grantLog, behind, releases >>

\* `return await connection.query(sql)`: the result or the error reaches the
\* caller of executeQueryWithMutex.
ExecuteQueryReturn(t) ==
    /\ pc[t] = "queried" /\ op[t].with = "executeQueryWithMutex"
    /\ pc' = [pc EXCEPT ![t] = "done"]
    /\ UNCHANGED << inUse, result, connection >>
    /\ UNCHANGED << op, depth, granted, current, counter, mutex, semaphore, maxConcurrent,
                    rwLock, balance, availableConnections, waitLog, grantLog, behind, releases >>

\* ------------------------------------------------------------------ SafeBankAccount
\* The accounts, and the `name` each was constructed with.
Accounts == {"alice", "bob"}
\* The same with the third account of the examples.
AllAccounts == Accounts \cup {"charlie"}
\* The four accounts of the transfer simulation.
SimulationAccounts == AllAccounts \cup {"diana"}
\* Two account objects constructed with the same name.
Namesakes == {"alice", "alice2"}
Name ==
    [a \in SimulationAccounts \cup Namesakes |->
        CASE a = "alice" -> "Alice" [] a = "bob" -> "Bob" [] a = "charlie" -> "Charlie"
          [] a = "diana" -> "Diana" [] a = "alice2" -> "Alice"]

\* a.localeCompare(b) on these names: negative, zero or positive.
LocaleCompare(a, b) ==
    LET rank == [n \in {"Alice", "Bob", "Charlie", "Diana"} |->
                    CASE n = "Alice" -> 1 [] n = "Bob" -> 2 [] n = "Charlie" -> 3
                      [] n = "Diana" -> 4]
    IN  rank[a] - rank[b]

\* `if (amount <= 0) return failure("Amount must be greater than 0")`
InvalidAmount(amount) == amount <= 0

\* Mutant of InsufficientFunds: the balance is not looked at.
NeverInsufficient(bal, amount) == FALSE

\* `if (this.balance < amount) return failure("Insufficient funds")`
InsufficientFunds(bal, amount) == bal < amount

\* Mutant of SortPair: no sort, the initiating account is locked first.
UnsortedPair(this, target) == << this, target >>

\* [this, target].sort((a, b) => a.name.localeCompare(b.name)): the sort is
\* stable, so the two swap only when the comparator puts target first.
SortPair(this, target) ==
    IF LocaleCompare(Name[this], Name[target]) > 0
    THEN << target, this >>
    ELSE << this, target >>

\* Mutant of Transfer: the amount is credited to every other account.
TransferCreditsOthers(bal, this, target, amount) ==
    [a \in DOMAIN bal |-> IF a = this THEN bal[a] - amount ELSE bal[a] + amount]

\* Mutant of Transfer: the credit overwrites the target's balance.
TransferOverwritesTarget(bal, this, target, amount) ==
    LET debited == [bal EXCEPT ![this] = @ - amount]
    IN  [debited EXCEPT ![target] = amount]

\* Mutant of Transfer: the target is not credited.
TransferDebitsOnly(bal, this, target, amount) ==
    [bal EXCEPT ![this] = @ - amount]

\* this.balance -= amount; target.balance += amount
Transfer(bal, this, target, amount) ==
    LET debited == [bal EXCEPT ![this] = @ - amount]
    IN  [debited EXCEPT ![target] = @ + amount]

TransferAmounts == {0, 10, 40, 150}
TransferOps ==
    {[with |-> "transferTo", from |-> a, to |-> b, amount |-> x] :
        a \in Accounts, b \in Accounts, x \in TransferAmounts}

\* deposit(amount) and withdraw(amount) on one account, with the amounts of
\* the demonstration: 0 and -20 are invalid, 60 and 80 together exceed 100,
\* 500 exceeds it alone.
DepositOps ==
    {[with |-> "deposit", from |-> a, to |-> a, amount |-> x] :
        a \in Accounts, x \in {0, 100}}
WithdrawOps ==
    {[with |-> "withdraw", from |-> a, to |-> a, amount |-> x] :
        a \in Accounts, x \in {-20, 60, 80, 500}}
BankOps == TransferOps \cup DepositOps \cup WithdrawOps

\* Up to BankTasks concurrent deposit, withdraw and transferTo calls on
\* accounts that hold OpeningBalance each.
InitBank ==
    /\ \E n \in 1..BankTasks : \E ops \in [1..n -> BankOps] : Started(ops)
    /\ mutex = [a \in Accounts |-> NewMutex]
    /\ balance = [a \in Accounts |-> OpeningBalance]
    /\ maxConcurrent = 0
    /\ semaphore = NewSemaphore(maxConcurrent)
    /\ rwLock = NewReadWriteLock
    /\ availableConnections = << >>
    /\ inUse = << >>

\* The "Concurrent Transfers (Deadlock-Safe)" example: three accounts with
\* 1000 each and four transfers started together.
ExampleDeposit == 1000
ExampleTransfers ==
    << [with |-> "transferTo", from |-> "alice", to |-> "bob", amount |-> 100],
       [with |-> "transferTo", from |-> "bob", to |-> "charlie", amount |-> 150],
       [with |-> "transferTo", from |-> "charlie", to |-> "alice", amount |-> 75],
       [with |-> "transferTo", from |-> "alice", to |-> "charlie", amount |-> 50] >>

\* transferTo between two different accounts out of three.
PairTransferOps ==
    {o \in {[with |-> "transferTo", from |-> a, to |-> b, amount |-> 40] :
                a \in AllAccounts, b \in AllAccounts} : o.from # o.to}

\* Three accounts with pairwise different names: the example, or any
\* TransferTasks transfers between different accounts.
InitTransfers ==
    /\ \/ /\ Started(ExampleTransfers)
          /\ balance = [a \in AllAccounts |-> ExampleDeposit]
       \/ /\ \E ops \in [1..TransferTasks -> PairTransferOps] : Started(ops)
          /\ balance = [a \in AllAccounts |-> OpeningBalance]
    /\ mutex = [a \in AllAccounts |-> NewMutex]
    /\ maxConcurrent = 0
    /\ semaphore = NewSemaphore(maxConcurrent)
    /\ rwLock = NewReadWriteLock
    /\ availableConnections = << >>
    /\ inUse = << >>

\* transferTo between two accounts that were constructed with equal names.
NamesakeOps ==
    {o \in {[with |-> "transferTo", from |-> a, to |-> b, amount |-> x] :
                a \in Namesakes, b \in Namesakes, x \in {10, 40}} : o.from # o.to}

InitNamesakes ==
    /\ \E n \in 1..BankTasks : \E ops \in [1..n -> NamesakeOps] : Started(ops)
    /\ mutex = [a \in Namesakes |-> NewMutex]
    /\ balance = [a \in Namesakes |-> OpeningBalance]
    /\ maxConcurrent = 0
    /\ semaphore = NewSemaphore(maxConcurrent)
    /\ rwLock = NewReadWriteLock
    /\ availableConnections = << >>
    /\ inUse = << >>

\* Operations on three accounts: transferTo between two different accounts,
\* deposit and withdraw on one.
TrioOps ==
    PairTransferOps
        \cup {[with |-> "deposit", from |-> a, to |-> a, amount |-> 50] : a \in AllAccounts}
        \cup {[with |-> "withdraw", from |-> a, to |-> a, amount |-> 60] : a \in AllAccounts}

InitTrio ==
    /\ \E ops \in [1..BankTasks -> TrioOps] : Started(ops)
    /\ mutex = [a \in AllAccounts |-> NewMutex]
    /\ balance = [a \in AllAccounts |-> OpeningBalance]
    /\ maxConcurrent = 0
    /\ semaphore = NewSemaphore(maxConcurrent)
    /\ rwLock = NewReadWriteLock
    /\ availableConnections = << >>
    /\ inUse = << >>

First(t) == SortPair(op[t].from, op[t].to)[1]
Second(t) == SortPair(op[t].from, op[t].to)[2]

\* transferTo up to its first await: the amount check, the sort and
\* first.mutex.withLock's `await this.lock()`.
TransferBegin(t) ==
    /\ pc[t] = "start" /\ op[t].with = "transferTo"
    /\ IF InvalidAmount(op[t].amount)
       THEN /\ pc' = [pc EXCEPT ![t] = "done"]
            /\ result' = [result EXCEPT ![t] = "Amount must be greater than 0"]
            /\ UNCHANGED << mutex, granted >>
       ELSE LET r == Lock(mutex[First(t)], t)
            IN  /\ mutex' = [mutex EXCEPT ![First(t)] = r.state]
                /\ granted' = granted \cup r.woken
                /\ pc' = [pc EXCEPT ![t] = "first"]
                /\ UNCHANGED result
    /\ UNCHANGED << op, depth, availableConnections, inUse, connection, current, counter, semaphore, maxConcurrent, rwLock,
                    balance, waitLog, grantLog, behind, releases >>

\* Resumed holding first's mutex: the outer callback calls
\* second.mutex.withLock, which awaits second's lock().
TransferSecond(t) ==
    /\ pc[t] = "first" /\ t \in granted /\ op[t].with = "transferTo"
    /\ LET r == Lock(mutex[Second(t)], t)
       IN  /\ mutex' = [mutex EXCEPT ![Second(t)] = r.state]
           /\ granted' = (granted \ {t}) \cup r.woken
    /\ pc' = [pc EXCEPT ![t] = "second"]
    /\ UNCHANGED << op, depth, availableConnections, inUse, connection, result, current, counter, semaphore, maxConcurrent,
                    rwLock, balance, waitLog, grantLog, behind, releases >>

\* Resumed holding both mutexes: the inner callback checks the balance and
\* moves the amount.
TransferBody(t) ==
    /\ pc[t] = "second" /\ t \in granted /\ op[t].with = "transferTo"
    /\ granted' = granted \ {t}
    /\ IF InsufficientFunds(balance[op[t].from], op[t].amount)
       THEN /\ result' = [result EXCEPT ![t] = "Insufficient funds"]
            /\ UNCHANGED balance
       ELSE /\ result' = [result EXCEPT ![t] = "success"]
            /\ balance' = Transfer(balance, op[t].from, op[t].to, op[t].amount)
    /\ pc' = [pc EXCEPT ![t] = "inner"]
    /\ UNCHANGED << op, depth, availableConnections, inUse, connection, current, counter, mutex, semaphore, maxConcurrent,
                    rwLock, waitLog, grantLog, behind, releases >>

\* The inner withLock's `finally { this.unlock() }` on second's mutex.
TransferUnlockSecond(t) ==
    /\ pc[t] = "inner" /\ op[t].with = "transferTo"
    /\ IF Finally("returned")
       THEN LET r == Unlock(mutex[Second(t)])
            IN  /\ mutex' = [mutex EXCEPT ![Second(t)] = r.state]
                /\ granted' = granted \cup r.woken
                /\ releases' = [releases EXCEPT ![t] = @ + 1]
       ELSE UNCHANGED << mutex, granted, releases >>
    /\ pc' = [pc EXCEPT ![t] = "outer"]
    /\ UNCHANGED << op, depth, availableConnections, inUse, connection, result, current, counter, semaphore, maxConcurrent,
                    rwLock, balance, waitLog, grantLog, behind >>

\* The outer withLock's `finally { this.unlock() }` on first's mutex; the
\* message then reaches the caller.
TransferUnlockFirst(t) ==
    /\ pc[t] = "outer" /\ op[t].with = "transferTo"
    /\ IF Finally("returned")
       THEN LET r == Unlock(mutex[First(t)])
            IN  /\ mutex' = [mutex EXCEPT ![First(t)] = r.state]
                /\ granted' = granted \cup r.woken
                /\ releases' = [releases EXCEPT ![t] = @ + 1]
       ELSE UNCHANGED << mutex, granted, releases >>
    /\ pc' = [pc EXCEPT ![t] = "done"]
    /\ UNCHANGED << op, depth, availableConnections, inUse, connection, result, current, counter, semaphore, maxConcurrent,
                    rwLock, balance, waitLog, grantLog, behind >>

\* The transfer simulation: four accounts constructed with 1000 each, and
\* SimulationTasks calls of randomTransfer started together, each a transferTo
\* between two different accounts of an amount below 200.
SimulationBalance == 1000
RandomTransfers ==
    {o \in {[with |-> "randomTransfer", from |-> a, to |-> b, amount |-> x] :
                a \in SimulationAccounts, b \in SimulationAccounts, x \in {0, 199}} :
        o.from # o.to}

InitSimulation ==
    /\ \E ops \in [1..SimulationTasks -> RandomTransfers] : Started(ops)
    /\ mutex = [a \in SimulationAccounts |-> NewMutex]
    /\ balance = [a \in SimulationAccounts |-> SimulationBalance]
    /\ maxConcurrent = 0
    /\ semaphore = NewSemaphore(maxConcurrent)
    /\ rwLock = NewReadWriteLock
    /\ availableConnections = << >>
    /\ inUse = << >>

\* randomTransfer: sender.transferTo(receiver, amount) of the account class
\* constructed with an initial balance, one step per run between awaits:
\*   start        sort, first.mutex.withLock awaits first's lock()
\*   first        second.mutex.withLock awaits second's lock()
\*   second       this.withdraw(amount): this.mutex.withLock awaits lock()
\*   withdrawing  withdraw's callback awaits simulateDelay()
\*   debiting     the balance check, the debit, withLock's unlock()
\*   withdrawn    on success target.deposit(amount) awaits target's lock()
\*   depositing   deposit's callback awaits simulateDelay()
\*   crediting    the credit, withLock's unlock()
\*   inner, outer the unlock() of second's and of first's mutex
RandomTransfer(t) ==
    /\ op[t].with = "randomTransfer"
    /\ LET this == op[t].from
           target == op[t].to
           amount == op[t].amount
           locking(a, next) ==
               LET r == Lock(mutex[a], t)
               IN  /\ mutex' = [mutex EXCEPT ![a] = r.state]
                   /\ granted' = (granted \ {t}) \cup r.woken
                   /\ pc' = [pc EXCEPT ![t] = next]
           unlocking(a, next) ==
               LET r == Unlock(mutex[a])
               IN  /\ mutex' = [mutex EXCEPT ![a] = r.state]
                   /\ granted' = granted \cup r.woken
                   /\ pc' = [pc EXCEPT ![t] = next]
           resuming(next) ==
               /\ granted' = granted \ {t}
               /\ pc' = [pc EXCEPT ![t] = next]
               /\ UNCHANGED mutex
       IN  CASE pc[t] = "start" ->
                  locking(First(t), "first") /\ UNCHANGED << balance, result >>
             [] pc[t] = "first" /\ t \in granted ->
                  locking(Second(t), "second") /\ UNCHANGED << balance, result >>
             [] pc[t] = "second" /\ t \in granted ->
                  locking(this, "withdrawing") /\ UNCHANGED << balance, result >>
             [] pc[t] = "withdrawing" /\ t \in granted ->
                  resuming("debiting") /\ UNCHANGED << balance, result >>
             [] pc[t] = "debiting" ->
                  /\ IF balance[this] >= amount
                     THEN /\ balance' = [balance EXCEPT ![this] = @ - amount]
                          /\ result' = [result EXCEPT ![t] = "success"]
                     ELSE /\ result' = [result EXCEPT ![t] = "Not enough funds"]
                          /\ UNCHANGED balance
                  /\ unlocking(this, "withdrawn")
             [] pc[t] = "withdrawn" ->
                  /\ IF result[t] = "success"
                     THEN locking(target, "depositing")
                     ELSE /\ pc' = [pc EXCEPT ![t] = "inner"]
                          /\ UNCHANGED << mutex, granted >>
                  /\ UNCHANGED << balance, result >>
             [] pc[t] = "depositing" /\ t \in granted ->
                  resuming("crediting") /\ UNCHANGED << balance, result >>
             [] pc[t] = "crediting" ->
                  /\ balance' = [balance EXCEPT ![target] = @ + amount]
                  /\ unlocking(target, "inner")
                  /\ UNCHANGED result
             [] pc[t] = "inner" ->
                  unlocking(Second(t), "outer") /\ UNCHANGED << balance, result >>
             [] pc[t] = "outer" ->
                  unlocking(First(t), "done") /\ UNCHANGED << balance, result >>
             [] OTHER -> FALSE
    /\ UNCHANGED << op, depth, availableConnections, inUse, connection, current, counter, semaphore, maxConcurrent,
                    rwLock, waitLog, grantLog, behind, releases >>

\* deposit up to its first await: the amount check and withLock's
\* `await this.lock()` on the account's mutex.
DepositBegin(t) ==
    /\ pc[t] = "start" /\ op[t].with = "deposit"
    /\ IF InvalidAmount(op[t].amount)
       THEN /\ pc' = [pc EXCEPT ![t] = "done"]
            /\ result' = [result EXCEPT ![t] = "Amount must be greater than 0"]
            /\ UNCHANGED << mutex, granted >>
       ELSE LET r == Lock(mutex[op[t].from], t)
            IN  /\ mutex' = [mutex EXCEPT ![op[t].from] = r.state]
                /\ granted' = granted \cup r.woken
                /\ pc' = [pc EXCEPT ![t] = "acquiring"]
                /\ UNCHANGED result
    /\ UNCHANGED << op, depth, availableConnections, inUse, connection, current, counter, semaphore, maxConcurrent, rwLock,
                    balance, waitLog, grantLog, behind, releases >>

\* Resumed holding the mutex: `this.balance += amount`.
DepositBody(t) ==
    /\ pc[t] = "acquiring" /\ t \in granted /\ op[t].with = "deposit"
    /\ granted' = granted \ {t}
    /\ balance' = [balance EXCEPT ![op[t].from] = @ + op[t].amount]
    /\ pc' = [pc EXCEPT ![t] = "settled"]
    /\ UNCHANGED << op, depth, availableConnections, inUse, connection, result, current, counter, mutex, semaphore, maxConcurrent,
                    rwLock, waitLog, grantLog, behind, releases >>

\* withLock's `finally { this.unlock() }`; deposit then returns its success
\* message.
DepositUnlock(t) ==
    /\ pc[t] = "settled" /\ op[t].with = "deposit"
    /\ IF Finally("returned")
       THEN LET r == Unlock(mutex[op[t].from])
            IN  /\ mutex' = [mutex EXCEPT ![op[t].from] = r.state]
                /\ granted' = granted \cup r.woken
                /\ releases' = [releases EXCEPT ![t] = @ + 1]
       ELSE UNCHANGED << mutex, granted, releases >>
    /\ result' = [result EXCEPT ![t] = "success"]
    /\ pc' = [pc EXCEPT ![t] = "done"]
    /\ UNCHANGED << op, depth, availableConnections, inUse, connection, current, counter, semaphore, maxConcurrent,
                    rwLock, balance, waitLog, grantLog, behind >>

\* withdraw up to its first await: the amount check and withLock's
\* `await this.lock()` on the account's mutex.
WithdrawBegin(t) ==
    /\ pc[t] = "start" /\ op[t].with = "withdraw"
    /\ IF InvalidAmount(op[t].amount)
       THEN /\ pc' = [pc EXCEPT ![t] = "done"]
            /\ result' = [result EXCEPT ![t] = "Amount must be greater than 0"]
            /\ UNCHANGED << mutex, granted >>
       ELSE LET r == Lock(mutex[op[t].from], t)
            IN  /\ mutex' = [mutex EXCEPT ![op[t].from] = r.state]
                /\ granted' = granted \cup r.woken
                /\ pc' = [pc EXCEPT ![t] = "acquiring"]
                /\ UNCHANGED result
    /\ UNCHANGED << op, depth, availableConnections, inUse, connection, current, counter, semaphore, maxConcurrent, rwLock,
                    balance, waitLog, grantLog, behind, releases >>

\* Resumed holding the mutex: the balance check and `this.balance -= amount`
\* in one run.
WithdrawBody(t) ==
    /\ pc[t] = "acquiring" /\ t \in granted /\ op[t].with = "withdraw"
    /\ granted' = granted \ {t}
    /\ IF InsufficientFunds(balance[op[t].from], op[t].amount)
       THEN /\ result' = [result EXCEPT ![t] = "Insufficient funds"]
            /\ UNCHANGED balance
       ELSE /\ result' = [result EXCEPT ![t] = "success"]
            /\ balance' = [balance EXCEPT ![op[t].from] = @ - op[t].amount]
    /\ pc' = [pc EXCEPT ![t] = "settled"]
    /\ UNCHANGED << op, depth, availableConnections, inUse, connection, current, counter, mutex, semaphore, maxConcurrent,
                    rwLock, waitLog, grantLog, behind, releases >>

\* withLock's `finally { this.unlock() }`; the message then reaches the caller.
WithdrawUnlock(t) ==
    /\ pc[t] = "settled" /\ op[t].with = "withdraw"
    /\ IF Finally("returned")
       THEN LET r == Unlock(mutex[op[t].from])
            IN  /\ mutex' = [mutex EXCEPT ![op[t].from] = r.state]
                /\ granted' = granted \cup r.woken
                /\ releases' = [releases EXCEPT ![t] = @ + 1]
       ELSE UNCHANGED << mutex, granted, releases >>
    /\ pc' = [pc EXCEPT ![t] = "done"]
    /\ UNCHANGED << op, depth, availableConnections, inUse, connection, result, current, counter, semaphore, maxConcurrent,
                    rwLock, balance, waitLog, grantLog, behind >>

\* ------------------------------------------------------------------ specifications
NextMutex ==
    \/ \E t \in Tasks : WithLockBegin(t)
    \/ \E t \in Tasks : FnStart(t)
    \/ \E t \in Tasks : FnResume(t)
    \/ \E t \in Tasks : WithLockFinally(t)

\* The operations of one BankAccount started back-to-back: the calls are made
\* in one run, in the order of the array, and run up to `await this.lock()`;
\* the continuations run after that.
AllStarted == \A u \in Tasks : pc[u] # "start"
NextAccount ==
    \/ \E t \in Tasks : (\A u \in Tasks : u < t => pc[u] # "start") /\ WithLockBegin(t)
    \/ \E t \in Tasks : AllStarted /\ FnStart(t)
    \/ \E t \in Tasks : AllStarted /\ FnResume(t)
    \/ \E t \in Tasks : AllStarted /\ WithLockFinally(t)

NextSem ==
    \/ \E t \in Tasks : WithPermitBegin(t)
    \/ \E t \in Tasks : FnStart(t)
    \/ \E t \in Tasks : FnResume(t)
    \/ \E t \in Tasks : WithPermitFinally(t)

NextRW ==
    \/ \E t \in Tasks : WithReadLockBegin(t)
    \/ \E t \in Tasks : WithWriteLockBegin(t)
    \/ \E t \in Tasks : FnStart(t)
    \/ \E t \in Tasks : FnResume(t)
    \/ \E t \in Tasks : WithReadLockFinally(t)
    \/ \E t \in Tasks : WithWriteLockFinally(t)

NextUpgrade ==
    \/ \E t \in Tasks : WithReadLockBegin(t)
    \/ \E t \in Tasks : WithWriteLockBegin(t)
    \/ \E t \in Tasks : FnStart(t)
    \/ \E t \in Tasks : Upgrade(t)
    \/ \E t \in Tasks : FnResume(t)
    \/ \E t \in Tasks : WithReadLockFinally(t)
    \/ \E t \in Tasks : WithWriteLockFinally(t)

NextReaders ==
    \/ \E t \in Tasks : WithReadLockBegin(t)
    \/ \E t \in Tasks : WithWriteLockBegin(t)
    \/ \E t \in Tasks : FnStart(t)
    \/ \E t \in Tasks : FnResume(t)
    \/ \E t \in Tasks : WithReadLockFinally(t)
    \/ \E t \in Tasks : WithWriteLockFinally(t)
    \/ \E t \in Tasks : ReaderAgain(t)

NextBacklog ==
    \/ \E t \in Tasks : WithReadLockBegin(t)
    \/ \E t \in Tasks : WithWriteLockBegin(t)
    \/ \E t \in Tasks : FnStart(t)
    \/ \E t \in Tasks : BacklogResume(t)
    \/ \E t \in Tasks : WithReadLockFinally(t)
    \/ \E t \in Tasks : WithWriteLockFinally(t)
    \/ \E t \in Tasks : WriterAgain(t)

\* Task t goes on whenever it can: it calls, resumes, releases, calls again.
BacklogStep(t) ==
    \/ WithReadLockBegin(t)
    \/ WithWriteLockBegin(t)
    \/ FnStart(t)
    \/ BacklogResume(t)
    \/ WithReadLockFinally(t)
    \/ WithWriteLockFinally(t)
    \/ WriterAgain(t)

\* A task that has been granted runs on: its fn is started, the timer it
\* awaits fires, and its helper releases.
Proceeds(t) ==
    \/ FnStart(t)
    \/ FnResume(t)
    \/ WithReadLockFinally(t)
    \/ WithWriteLockFinally(t)

NextPool ==
    \/ \E t \in Tasks : WithPermitBegin(t)
    \/ \E t \in Tasks : QueryStart(t)
    \/ \E t \in Tasks : QueryResume(t)
    \/ \E t \in Tasks : QueryReturn(t)
    \/ \E t \in Tasks : WithPermitFinally(t)

NextSignal ==
    \/ \E t \in Tasks : AcquireCall(t)
    \/ \E t \in Tasks : AcquireReturn(t)
    \/ \E t \in Tasks : ReleaseCall(t)

NextClient ==
    \/ \E t \in Tasks : GetUser(t)
    \/ \E t \in Tasks : Fetch(t)
    \/ \E t \in Tasks : Response(t)
    \/ \E t \in Tasks : Retry(t)
    \/ \E t \in Tasks : GetUserFinally(t)

NextLockCalls ==
    \/ \E t \in Tasks : LockCall(t)
    \/ \E t \in Tasks : LockReturn(t)
    \/ \E t \in Tasks : UnlockCall(t)

\* Direct calls of the eight operations of the three primitives.
InitCalls == InitLockCalls \/ InitSignal \/ InitRWCalls
NextCalls ==
    \/ \E t \in Tasks : LockCall(t)
    \/ \E t \in Tasks : LockReturn(t)
    \/ \E t \in Tasks : UnlockCall(t)
    \/ \E t \in Tasks : AcquireCall(t)
    \/ \E t \in Tasks : AcquireReturn(t)
    \/ \E t \in Tasks : ReleaseCall(t)
    \/ \E t \in Tasks : AcquireReadCall(t)
    \/ \E t \in Tasks : AcquireWriteCall(t)
    \/ \E t \in Tasks : ReadWriteReturn(t)
    \/ \E t \in Tasks : ReleaseReadCall(t)
    \/ \E t \in Tasks : ReleaseWriteCall(t)

\* Task t makes its call.
Call(t) ==
    \/ LockCall(t) \/ UnlockCall(t)
    \/ AcquireCall(t) \/ ReleaseCall(t)
    \/ AcquireReadCall(t) \/ AcquireWriteCall(t)
    \/ ReleaseReadCall(t) \/ ReleaseWriteCall(t)

NextMutexPool ==
    \/ \E t \in Tasks : ExecuteQueryWithMutex(t)
    \/ \E t \in Tasks : ExecuteQueryResume(t)
    \/ \E t \in Tasks : ExecuteQueryReturn(t)

NextBank ==
    \/ \E t \in Tasks : DepositBegin(t)
    \/ \E t \in Tasks : DepositBody(t)
    \/ \E t \in Tasks : DepositUnlock(t)
    \/ \E t \in Tasks : WithdrawBegin(t)
    \/ \E t \in Tasks : WithdrawBody(t)
    \/ \E t \in Tasks : WithdrawUnlock(t)
    \/ \E t \in Tasks : TransferBegin(t)
    \/ \E t \in Tasks : TransferSecond(t)
    \/ \E t \in Tasks : TransferBody(t)
    \/ \E t \in Tasks : TransferUnlockSecond(t)
    \/ \E t \in Tasks : TransferUnlockFirst(t)

NextTransfers ==
    \/ \E t \in Tasks : TransferBegin(t)
    \/ \E t \in Tasks : TransferSecond(t)
    \/ \E t \in Tasks : TransferBody(t)
    \/ \E t \in Tasks : TransferUnlockSecond(t)
    \/ \E t \in Tasks : TransferUnlockFirst(t)

NextSimulation ==
    \/ \E t \in Tasks : RandomTransfer(t)

\* Tasks on one primitive: a Mutex, a Semaphore or a ReadWriteLock.
Init == InitMutex \/ InitSem \/ InitRW
Next ==
    \/ \E t \in Tasks : WithLockBegin(t)
    \/ \E t \in Tasks : WithPermitBegin(t)
    \/ \E t \in Tasks : WithReadLockBegin(t)
    \/ \E t \in Tasks : WithWriteLockBegin(t)
    \/ \E t \in Tasks : FnStart(t)
    \/ \E t \in Tasks : FnResume(t)
    \/ \E t \in Tasks : WithLockFinally(t)
    \/ \E t \in Tasks : WithPermitFinally(t)
    \/ \E t \in Tasks : WithReadLockFinally(t)
    \/ \E t \in Tasks : WithWriteLockFinally(t)
Spec == Init /\ [][Next]_vars

\* Finite workloads on one primitive, where a task that can take a step
\* (resume after an await, run its finally block) eventually does.
SpecFinite == InitFinite /\ [][Next]_vars /\ WF_vars(Next)

\* Concurrent transfers between SafeBankAccounts.
SpecBank == InitBank /\ [][NextBank]_vars
\* Concurrent transfers among three SafeBankAccounts.
SpecTransfers == InitTransfers /\ [][NextTransfers]_vars
\* Concurrent operations on three SafeBankAccounts.
SpecTrio == InitTrio /\ [][NextBank]_vars
\* Concurrent transfers between two accounts with equal names.
SpecNamesakes == InitNamesakes /\ [][NextTransfers]_vars
\* The transfer simulation among four accounts.
SpecSimulation == InitSimulation /\ [][NextSimulation]_vars
\* Concurrent requests of one rate-limited client.
SpecClient == InitClient /\ [][NextClient]_vars
\* Clients of one DatabaseConnectionPool.
SpecPool == InitPool /\ [][NextPool]_vars
\* Direct callers of acquire() and release() on one Semaphore.
SpecSignal == InitSignal /\ [][NextSignal]_vars
\* Clients of one MutexDatabasePool.
SpecMutexPool == InitMutexPool /\ [][NextMutexPool]_vars
\* Direct callers of the operations of one Mutex, one Semaphore or one
\* ReadWriteLock, in any order and unpaired.
SpecCalls == InitCalls /\ [][NextCalls]_vars
\* Direct callers of lock() and unlock() on one Mutex.
SpecLockCalls == InitLockCalls /\ [][NextLockCalls]_vars
\* Tasks on one Mutex.
SpecMutex == InitMutex /\ [][NextMutex]_vars
\* Deposits and withdrawals started back-to-back on one BankAccount.
SpecAccount == InitAccount /\ [][NextAccount]_vars
\* Tasks on one Semaphore.
SpecSem == InitSem /\ [][NextSem]_vars
\* Tasks on one ReadWriteLock.
SpecRW == InitRW /\ [][NextRW]_vars
\* Tasks on one ReadWriteLock with readers that keep coming back; every
\* granted reader and writer eventually releases, while nothing obliges a
\* caller to arrive.
SpecReaders ==
    /\ InitReaders /\ [][NextReaders]_vars
    /\ \A t \in 1..RWTasks : WF_vars(Proceeds(t))
\* Tasks on one ReadWriteLock under a continuous writer backlog: writers
\* keep calling, and the active writer finishes after the next has queued.
SpecBacklog ==
    /\ InitBacklog /\ [][NextBacklog]_vars
    /\ \A t \in 1..RWTasks : WF_vars(BacklogStep(t))
\* Tasks on one ReadWriteLock, some of which upgrade a held read lock.
SpecUpgrade == InitUpgrade /\ [][NextUpgrade]_vars

\* ------------------------------------------------------------------ properties
\* Task t has been granted what its helper acquires (at once or by hand-off).
Granted(t) ==
    \/ pc[t] = "acquiring" /\ t \in granted
    \/ pc[t] \in {"suspended", "queried", "upgrading", "upgraded", "settled", "done"}

\* Task t has been granted and has not yet called the matching release.
Holding(t) == Granted(t) /\ releases[t] = 0

Holders(helper) == {t \in Tasks : op[t].with = helper /\ Holding(t)}

AllDone == \A t \in Tasks : pc[t] = "done"

\* C1: on one Mutex, at most one task is between "lock granted" and
\* "unlock called", also while the holder is suspended inside its critical
\* section.
C1_MutexExclusion == Cardinality(Holders("withLock")) <= 1

\* C1 witness: the holder is suspended on an await inside its critical section
\* while another task waits in the queue.
C1_Witness ==
    /\ \E t \in Holders("withLock") : pc[t] = "suspended"
    /\ Len(mutex[TheMutex].waitQueue) > 0

\* C2: on a Semaphore constructed with N permits, at most N tasks are between
\* "acquire granted" and "release called".
C2_SemaphoreBound == Cardinality(Holders("withPermit")) <= maxConcurrent

\* C2 witness: Semaphore(2) with 5 tasks, 2 of them inside and 3 queued.
C2_Witness ==
    /\ op = RateLimiterTasks /\ maxConcurrent = 2
    /\ \E t, u \in Tasks : t # u /\ pc[t] = "suspended" /\ pc[u] = "suspended"
    /\ Len(semaphore.waitQueue) = 3

\* C3: on a ReadWriteLock, readers > 0 and writer are never true together, no
\* task holds a read lock while one holds the write lock, and no two tasks
\* hold the write lock.
C3_ReadersWritersExclude ==
    /\ ~(rwLock.readers > 0 /\ rwLock.writer)
    /\ Cardinality(Holders("withWriteLock")) <= 1
    /\ Holders("withWriteLock") # {} => Holders("withReadLock") = {}

\* C3 witness: a writer holds the lock while a reader and another writer wait.
C3_Witness ==
    /\ Holders("withWriteLock") # {}
    /\ Len(rwLock.readWaitQueue) > 0
    /\ Len(rwLock.writeWaitQueue) > 0

\* C6: a reader that called acquireRead() after a writer had queued is not
\* granted before that writer has been granted and has called releaseWrite().
C6_WriterPriority ==
    \A r \in Tasks :
        op[r].with = "withReadLock" /\ Granted(r) =>
            \A w \in behind[r] : releases[w] > 0

\* C6 witness: a reader active, then a writer queued, then a late reader, which
\* is granted once the writer has released.
C6_Witness ==
    \E r \in Tasks :
        /\ op[r].with = "withReadLock" /\ Granted(r)
        /\ \E w \in behind[r] : op[w].with = "withWriteLock" /\ releases[w] = 1

\* s is an initial segment of q.
IsPrefix(s, q) == Len(s) <= Len(q) /\ \A i \in 1..Len(s) : s[i] = q[i]

\* C7: on one Mutex or one Semaphore, callers that had to wait are granted in
\* the order in which they were queued.
C7_Fifo ==
    (\A t \in Tasks : op[t].with \in {"withLock", "withPermit"}) =>
        IsPrefix(grantLog, waitLog)

\* C7 witness: three callers of lock()/acquire() had to wait; the first two
\* have been granted and the third is still queued.
C7_Witness ==
    /\ Len(grantLog) = 2 /\ Len(waitLog) = 3
    /\ \A t \in Tasks : op[t].with \in {"withLock", "withPermit"}

\* The primitive is as constructed: free, all permits back, no reader, no
\* writer, nobody queued.
Idle ==
    /\ mutex[TheMutex] = NewMutex
    /\ semaphore = NewSemaphore(maxConcurrent)
    /\ rwLock = NewReadWriteLock

\* C8: each scoped helper releases exactly once on every exit path of fn, and
\* the result or error reaches the caller only after the release; after a
\* failing fn the primitive is held only by tasks still inside (free, or
\* handed to the next waiter), and it is as constructed once every task is
\* through.
C8_ReleaseOnEveryExit ==
    /\ \A t \in Tasks :
          /\ pc[t] = "done" => releases[t] = 1
          /\ pc[t] # "done" => releases[t] = 0
    /\ (\E t \in Tasks : pc[t] = "done" /\ result[t] = "threw") =>
          /\ mutex[TheMutex].locked = (Holders("withLock") # {})
          /\ semaphore.permits = maxConcurrent - Cardinality(Holders("withPermit"))
          /\ rwLock.readers = Cardinality(Holders("withReadLock"))
          /\ rwLock.writer = (Holders("withWriteLock") # {})
    /\ AllDone => Idle

\* C8 witness: a task whose fn threw is done, has released once, and the
\* waiter behind it was handed the primitive.
C8_Witness ==
    \E t \in Tasks :
        /\ pc[t] = "done" /\ result[t] = "threw" /\ releases[t] = 1
        /\ \E u \in Tasks : u # t /\ Holding(u) /\ u \in Range(grantLog)

RECURSIVE SumArgs(_)
SumArgs(T) ==
    IF T = {} THEN 0
    ELSE LET t == CHOOSE x \in T : TRUE
         IN  op[t].arg + SumArgs(T \ {t})

\* C10: no update is lost under the Mutex: when all tasks are through, the
\* shared variable is the sum of the arguments of the callbacks that
\* returned; 10, 5, 2, 3 give 20 and 100, 200, 300, 400 give 1000.
C10_NoLostUpdate ==
    AllDone =>
        /\ counter = SumArgs({t \in Tasks : result[t] = "returned"})
        /\ op = RunTasks => counter = 20
        /\ op = RunDeposits => counter = 1000

\* C10 witness: the four deposits, each suspended between its read and its
\* write, are through.
C10_Witness == AllDone /\ op = RunDeposits /\ counter = 1000

\* Task t holds account a's mutex: granted and not yet unlocked.
HoldsMutex(t, a) ==
    \/ /\ First(t) = a
       /\ (pc[t] = "first" /\ t \in granted) \/ pc[t] \in {"second", "inner", "outer"}
    \/ /\ Second(t) = a
       /\ (pc[t] = "second" /\ t \in granted) \/ pc[t] = "inner"
    \/ /\ op[t].from = a
       /\ (pc[t] = "acquiring" /\ t \in granted) \/ pc[t] = "settled"

\* Task t is queued on account a's mutex.
WaitsFor(t, a) ==
    /\ t \notin granted
    /\ \/ pc[t] = "first" /\ First(t) = a
       \/ pc[t] = "second" /\ Second(t) = a
       \/ pc[t] = "acquiring" /\ op[t].from = a

\* Tasks t and u transfer between the same two different accounts in opposite
\* directions.
Opposite(t, u) ==
    /\ op[t].with = "transferTo" /\ op[u].with = "transferTo"
    /\ op[t].from # op[t].to
    /\ op[u].from = op[t].to /\ op[u].to = op[t].from
    /\ op[t].amount > 0 /\ op[u].amount > 0

\* C4: A.transferTo(B, x) and B.transferTo(A, y) never reach the state where
\* one holds A's mutex and waits for B's while the other holds B's and waits
\* for A's, and, run together, both complete.
C4_NoCircularWait ==
    \A t, u \in Tasks :
        Opposite(t, u) =>
            /\ \A a, b \in Accounts :
                  ~(/\ HoldsMutex(t, a) /\ WaitsFor(t, b)
                    /\ HoldsMutex(u, b) /\ WaitsFor(u, a))
            /\ Tasks = {t, u} => (AllDone \/ ENABLED NextBank)

\* C4 witness: the two opposite transfers contend: one holds both mutexes,
\* the other waits for the first of them.
C4_Witness ==
    \E t, u \in Tasks :
        /\ Opposite(t, u)
        /\ pc[t] = "inner"
        /\ WaitsFor(u, First(u))

\* C5: a self-transfer of 10 on an account holding 100 never waits for a mutex
\* it holds itself, terminates, leaves the mutex free and the balance at 100.
C5_SelfTransferTerminates ==
    \A t \in Tasks :
        op[t].with = "transferTo" /\ op[t].from = op[t].to /\ op[t].amount = 10 =>
            /\ ~(HoldsMutex(t, op[t].from) /\ WaitsFor(t, op[t].from))
            /\ Tasks = {t} =>
                  /\ AllDone \/ ENABLED NextBank
                  /\ AllDone =>
                        /\ balance[op[t].from] = OpeningBalance
                        /\ mutex[op[t].from] = NewMutex

\* The workload is Alice.transferTo(Bob, 40) and Bob.transferTo(Alice, 40).
Scenario4 ==
    /\ Tasks = {1, 2}
    /\ \E t, u \in Tasks :
          /\ op[t] = [with |-> "transferTo", from |-> "alice", to |-> "bob", amount |-> 40]
          /\ op[u] = [with |-> "transferTo", from |-> "bob", to |-> "alice", amount |-> 40]

\* C9: Alice.transferTo(Bob, 40) and Bob.transferTo(Alice, 40) run together
\* terminate under every schedule, both succeed, and both balances end where
\* they started.
C9_OppositeTransfers ==
    Scenario4 =>
        /\ AllDone \/ ENABLED NextBank
        /\ AllDone =>
              /\ \A t \in Tasks : result[t] = "success"
              /\ \A a \in Accounts : balance[a] = OpeningBalance

\* C9 witness: both transfers of the scenario are through.
C9_Witness == Scenario4 /\ AllDone

\* Task t was handed the primitive by a release and has not yet resumed.
HandedOff(t) == t \in granted /\ t \in Range(grantLog)

\* C11: Mutex.unlock() called with a non-empty queue makes the head waiter
\* the holder and leaves locked true; while a handed-off waiter has not yet
\* resumed the mutex is never free, and a lock() call arriving then is queued
\* at the back and not granted.
C11_MutexHandOff ==
    [][LET m == mutex[TheMutex]
           n == mutex'[TheMutex]
       IN  /\ (\E t \in Tasks : pc[t] = "settled" /\ pc'[t] = "done")
                  /\ Len(m.waitQueue) > 0 =>
                 /\ n.locked
                 /\ n.waitQueue = Tail(m.waitQueue)
                 /\ granted' = granted \cup {Head(m.waitQueue)}
           /\ \A t \in Tasks :
                 pc[t] = "start" /\ pc'[t] = "acquiring"
                     /\ (\E u \in Tasks : HandedOff(u)) =>
                    /\ t \notin granted'
                    /\ n.waitQueue = Append(m.waitQueue, t)
           /\ (\E u \in Tasks : u \in granted') => n.locked
      ]_vars

\* C11 witness: the waiter handed the mutex has not yet resumed, the mutex is
\* locked, and another caller of lock() sits in the queue.
C11_Witness ==
    /\ \E u \in Tasks : HandedOff(u) /\ op[u].with = "withLock"
    /\ mutex[TheMutex].locked
    /\ Len(mutex[TheMutex].waitQueue) > 0

\* A step in which some task's withPermit runs `finally { this.release() }`.
ReleaseStep == \E t \in Tasks : pc[t] = "settled" /\ pc'[t] = "done"

\* A step in which task t calls acquire().
AcquireStep(t) == pc[t] = "start" /\ pc'[t] = "acquiring"

\* C12 as stated: Semaphore.release() with a non-empty queue grants the head
\* waiter and leaves permits unchanged, permits is incremented only when the
\* queue is empty, and an acquire() arriving before a handed-off waiter has
\* resumed finds permits = 0 and is queued at the back.
C12_ArrivalFindsNoPermit ==
    [][/\ ReleaseStep =>
             IF Len(semaphore.waitQueue) > 0
             THEN /\ semaphore'.permits = semaphore.permits
                  /\ semaphore'.waitQueue = Tail(semaphore.waitQueue)
                  /\ granted' = granted \cup {Head(semaphore.waitQueue)}
             ELSE /\ semaphore'.permits = semaphore.permits + 1
                  /\ granted' = granted
       /\ \A t \in Tasks :
             AcquireStep(t) /\ (\E u \in Tasks : HandedOff(u)) =>
                /\ semaphore.permits = 0
                /\ t \notin granted'
                /\ semaphore'.waitQueue = Append(semaphore.waitQueue, t)
      ]_vars

\* C12 amended: release() with a non-empty queue grants the head waiter and
\* leaves permits unchanged, permits is incremented only when the queue is
\* empty, and an acquire() arriving while a caller is queued finds permits = 0
\* and is queued at the back; arriving before a handed-off waiter has resumed
\* it is granted only if nobody is queued and a permit is free.
C12_SemaphoreHandOff ==
    [][/\ ReleaseStep =>
             IF Len(semaphore.waitQueue) > 0
             THEN /\ semaphore'.permits = semaphore.permits
                  /\ semaphore'.waitQueue = Tail(semaphore.waitQueue)
                  /\ granted' = granted \cup {Head(semaphore.waitQueue)}
             ELSE /\ semaphore'.permits = semaphore.permits + 1
                  /\ granted' = granted
       /\ \A t \in Tasks :
             AcquireStep(t) =>
                /\ Len(semaphore.waitQueue) > 0 =>
                      /\ semaphore.permits = 0
                      /\ t \notin granted'
                      /\ semaphore'.waitQueue = Append(semaphore.waitQueue, t)
                /\ (\E u \in Tasks : HandedOff(u)) /\ t \in granted' =>
                      Len(semaphore.waitQueue) = 0 /\ semaphore.permits > 0
      ]_vars

\* C12 witness: a waiter handed a permit has not yet resumed, permits is 0
\* and a caller of acquire() sits in the queue.
C12_Witness ==
    /\ \E u \in Tasks : HandedOff(u) /\ op[u].with = "withPermit"
    /\ semaphore.permits = 0
    /\ Len(semaphore.waitQueue) > 0

\* C13: a task that calls withWriteLock on a lock whose read lock it still
\* holds is never granted the write lock: its request stays queued behind
\* its own read, which is never released, and from then on no request on the
\* lock is granted any more.
C13_UpgradeDeadlocks ==
    [][\A u \in Tasks :
          /\ pc'[u] = "upgrading" =>
                /\ u \notin granted'
                /\ u \in Range(rwLock'.writeWaitQueue)
                /\ rwLock'.readers >= 1 /\ ~rwLock'.writer
                /\ releases'[u] = 0
                /\ granted' \subseteq granted
          /\ pc[u] = "upgrading" => pc'[u] = "upgrading"
      ]_vars

\* C13 witness: the upgrading task is queued for the write lock behind its own
\* read lock, a writer and a reader that arrived later are queued too, and no
\* step is possible any more.
C13_Witness ==
    \E u \in Tasks :
        /\ pc[u] = "upgrading" /\ rwLock.readers = 1
        /\ Len(rwLock.writeWaitQueue) = 2 /\ Head(rwLock.writeWaitQueue) = u
        /\ Len(rwLock.readWaitQueue) = 1
        /\ ~ENABLED NextUpgrade

\* Task t waits for a mutex that task u holds.
BlockedBy(t, u) == \E a \in AllAccounts : WaitsFor(t, a) /\ HoldsMutex(u, a)

\* The largest subset of S in which every task is blocked by a member of the
\* subset: it is not empty exactly when tasks of S wait in a cycle.
RECURSIVE HoldAndWait(_)
HoldAndWait(S) ==
    LET free == {t \in S : \A u \in S : ~BlockedBy(t, u)}
    IN  IF free = {} THEN S ELSE HoldAndWait(S \ free)

\* C14: among three accounts with pairwise different names, concurrently
\* started transferTo calls between different accounts never form a cycle of
\* hold-and-wait (no set of tasks each blocked by a member of the set), and
\* they all complete: until every call is through a step is possible.
C14_TransfersComplete ==
    /\ HoldAndWait(Tasks) = {}
    /\ AllDone \/ ENABLED NextTransfers

\* C14 witness: in the example a chain of three forms, Charlie->Alice blocked
\* by Alice->Bob, which is blocked by Bob->Charlie holding both its mutexes.
C14_Witness ==
    /\ op = ExampleTransfers
    /\ BlockedBy(3, 1) /\ BlockedBy(1, 2)
    /\ pc[2] = "inner"

\* C15: a writer queued in the write queue is eventually granted the write
\* lock, however often readers call acquireRead() again after it queued,
\* provided every granted reader and writer eventually releases.
C15_WriterNotStarved ==
    \A w \in 1..RWTasks :
        (w \in Range(rwLock.writeWaitQueue)) ~> (w \in granted)

\* C15 witness: a writer that had queued holds the write lock while a reader
\* that came back after it had queued waits in the read queue.
C15_Witness ==
    \E w \in Holders("withWriteLock") :
        /\ w \in Range(waitLog)
        /\ \E r \in Range(rwLock.readWaitQueue) : w \in behind[r]

\* Tasks t and u withdraw from the same account and nothing else runs.
TwoWithdrawals(t, u) ==
    /\ Tasks = {t, u} /\ t # u
    /\ op[t].with = "withdraw" /\ op[u].with = "withdraw"
    /\ op[t].from = op[u].from

\* C16: under any interleaving of concurrent deposit, withdraw and transferTo
\* calls no balance is ever negative, and two concurrent withdrawals from one
\* account whose amounts together exceed its balance do not both succeed.
C16_NeverNegative ==
    /\ \A a \in Accounts : balance[a] >= 0
    /\ \A t, u \in Tasks :
          TwoWithdrawals(t, u) /\ op[t].amount + op[u].amount > OpeningBalance =>
              ~(result[t] = "success" /\ result[u] = "success")

\* C16 witness: withdraw(60) and withdraw(80) ran together on a balance of
\* 100; one succeeded, the other was refused.
C16_Witness ==
    \E t, u \in Tasks :
        /\ TwoWithdrawals(t, u) /\ AllDone
        /\ op[t].amount = 60 /\ op[u].amount = 80
        /\ result[t] = "Insufficient funds" /\ result[u] = "success"
        /\ balance[op[t].from] = OpeningBalance - 80

\* The sum of the balances of the accounts in A.
RECURSIVE SumBalances(_)
SumBalances(A) ==
    IF A = {} THEN 0
    ELSE LET a == CHOOSE x \in A : TRUE
         IN  balance[a] + SumBalances(A \ {a})

\* The sum of the amounts of the operations of the tasks in T.
RECURSIVE SumAmounts(_)
SumAmounts(T) ==
    IF T = {} THEN 0
    ELSE LET t == CHOOSE x \in T : TRUE
         IN  op[t].amount + SumAmounts(T \ {t})

\* The deposits that have added their amount and the withdrawals that have
\* taken theirs.
Deposited ==
    {t \in Tasks : op[t].with = "deposit" /\ (pc[t] = "settled" \/ result[t] = "success")}
Withdrawn == {t \in Tasks : op[t].with = "withdraw" /\ result[t] = "success"}

\* C17: in every state another task can observe, the sum of all balances is
\* what it was before the transfers started (plus the deposits and minus the
\* withdrawals made meanwhile), for any number of concurrent transfers: no
\* state shows the amount debited and not yet credited.
C17_TransferAtomic ==
    SumBalances(Accounts) =
        Cardinality(Accounts) * OpeningBalance
            + SumAmounts(Deposited) - SumAmounts(Withdrawn)

\* C17 witness: two transfers run together; one has moved its amount and
\* still holds both mutexes while the other waits, and the total is the
\* opening total.
C17_Witness ==
    /\ \E t, u \in Tasks :
          /\ t # u /\ op[t].with = "transferTo" /\ op[u].with = "transferTo"
          /\ op[t].from # op[t].to
          /\ pc[t] = "inner" /\ result[t] = "success"
          /\ balance[op[t].from] = OpeningBalance - op[t].amount
          /\ pc[u] = "first" /\ u \notin granted
    /\ SumBalances(Accounts) = Cardinality(Accounts) * OpeningBalance

\* The transfers that have moved their amount.
Transferred == {t \in Tasks : op[t].with = "transferTo" /\ result[t] = "success"}

\* The mutexes an operation acquires before it reaches its balance check.
Acquired(t) == IF op[t].with = "transferTo" THEN 2 ELSE 1

\* C18: deposit, withdraw and transferTo with amount <= 0 return the failure
\* message, change no balance and acquire no mutex; withdraw and transferTo
\* with an amount above the source balance return 'Insufficient funds',
\* change no balance and release every mutex they acquired.  Balances
\* therefore reflect the successful operations only.
C18_FailuresChangeNothing ==
    /\ \A a \in Accounts :
          balance[a] = OpeningBalance
              + SumAmounts({t \in Deposited : op[t].from = a})
              - SumAmounts({t \in Withdrawn : op[t].from = a})
              - SumAmounts({t \in Transferred : op[t].from = a})
              + SumAmounts({t \in Transferred : op[t].to = a})
    /\ \A t \in Tasks :
          /\ InvalidAmount(op[t].amount) =>
                /\ pc[t] \in {"start", "done"}
                /\ pc[t] = "done" => result[t] = "Amount must be greater than 0"
                /\ releases[t] = 0
          /\ result[t] = "Insufficient funds" /\ pc[t] = "done" =>
                /\ releases[t] = Acquired(t)
                /\ \A a \in Accounts : ~HoldsMutex(t, a)
          /\ Tasks = {t} /\ op[t].with \in {"withdraw", "transferTo"}
                 /\ op[t].amount > OpeningBalance =>
                /\ AllDone \/ ENABLED NextBank
                /\ AllDone =>
                      /\ result[t] = "Insufficient funds"
                      /\ \A a \in Accounts :
                            balance[a] = OpeningBalance /\ mutex[a] = NewMutex

\* The clients that have popped a connection and not yet pushed it back.
Connected == {t \in Tasks : pc[t] \in {"suspended", "queried"}}

\* C19: in a pool of N connections at most N queries are inside the permit;
\* every permit holder about to pop finds a connection, so "No connections
\* available" is never thrown: each holder either has a connection or one is
\* idle for it, and a holder that has released has returned its connection
\* before, also when the permit was handed to a waiter.
C19_PoolNeverEmpty ==
    /\ Cardinality(Holders("withPermit")) <= maxConcurrent
    /\ Len(availableConnections) + Cardinality(Connected) = maxConcurrent
    /\ Len(availableConnections) >=
          Cardinality({t \in Tasks : pc[t] = "acquiring" /\ t \in granted})
    /\ \A t \in Tasks : result[t] # "threw"
    /\ \A t \in Tasks :
          pc[t] = "done" =>
              \/ connection[t] \in Range(availableConnections)
              \/ \E u \in Connected : connection[u] = connection[t]

\* C19 witness: all connections were busy, a holder returned its connection
\* and released, and the waiter handed its permit has not yet popped.
C19_Witness ==
    \E h, u \in Tasks :
        /\ pc[h] = "done" /\ connection[h] \in Range(availableConnections)
        /\ HandedOff(u) /\ pc[u] = "acquiring"
        /\ Len(availableConnections) = 1

\* The direct acquire() calls that have been granted, and the release()
\* calls made.
GrantedAcquires == {t \in Tasks : op[t].with = "acquire" /\ Granted(t)}
ReleaseCalls == {t \in Tasks : op[t].with = "release" /\ pc[t] = "done"}

\* C20: a Semaphore constructed with 0 permits grants nothing until a
\* release() occurs: every acquire() is queued; each release() then grants
\* exactly one acquire(), the oldest queued one (or, with nobody queued,
\* leaves one permit for the next).
C20_ZeroPermits ==
    maxConcurrent = 0 =>
        /\ semaphore.permits >= 0
        /\ ReleaseCalls = {} => GrantedAcquires = {} /\ semaphore.permits = 0
        /\ semaphore.permits + Cardinality(GrantedAcquires) = Cardinality(ReleaseCalls)
        /\ Len(semaphore.waitQueue) > 0 => semaphore.permits = 0
        /\ waitLog = grantLog \o semaphore.waitQueue

\* C20 witness: on Semaphore(0) two acquire() calls were queued; one
\* release() has granted the older one and the younger is still queued.
C20_Witness ==
    /\ maxConcurrent = 0
    /\ Len(waitLog) = 2 /\ grantLog = << waitLog[1] >>
    /\ semaphore.waitQueue = << waitLog[2] >>
    /\ Cardinality(ReleaseCalls) = 1 /\ GrantedAcquires = {waitLog[1]}

\* C21: a request that receives 429 is retried and the original call
\* completes and releases its permits, however many concurrent requests are
\* rate-limited together: until every call is through a step is possible,
\* and then all permits are back.
C21_RetryCompletes ==
    /\ AllDone \/ ENABLED NextClient
    /\ AllDone => semaphore = NewSemaphore(maxConcurrent)

\* C22: after any sequence of lock() and unlock() calls, a non-empty wait
\* queue implies locked = true; a caller is queued only while locked is
\* true, and locked is set to false only when the queue is empty.
C22_QueueImpliesLocked ==
    [][LET m == mutex[TheMutex]
           n == mutex'[TheMutex]
       IN  /\ Len(n.waitQueue) > 0 => n.locked
           /\ Len(n.waitQueue) > Len(m.waitQueue) => m.locked /\ n.locked
           /\ m.locked /\ ~n.locked => Len(m.waitQueue) = 0 /\ Len(n.waitQueue) = 0
      ]_vars

\* C22 witness: a caller is queued on the locked mutex after an unlock() has
\* handed it to an earlier waiter.
C22_Witness ==
    /\ \A t \in Tasks : op[t].with \in {"lock", "unlock"}
    /\ Len(mutex[TheMutex].waitQueue) = 1 /\ mutex[TheMutex].locked
    /\ Len(grantLog) = 1

\* C23: for a Semaphore constructed with N >= 0 permits and used through
\* paired acquire/release, permits is never negative and permits plus the
\* number of tasks granted and not yet released is N; a waiter handed a
\* permit that has not yet resumed counts as a holder.
C23_PermitAccounting ==
    /\ semaphore.permits >= 0
    /\ semaphore.permits + Cardinality(Holders("withPermit")) = maxConcurrent

\* C23 witness: on Semaphore(2) no permit is left, one holder is inside and
\* the other is a waiter handed its permit that has not yet resumed.
C23_Witness ==
    /\ maxConcurrent = 2 /\ semaphore.permits = 0
    /\ \E u \in Holders("withPermit") : HandedOff(u)
    /\ \E t \in Holders("withPermit") : pc[t] = "suspended"

\* C24: after any sequence of acquire() and release() calls on a Semaphore
\* constructed with N >= 0 permits, permits > 0 implies an empty wait queue.
C24_NoWaiterWithPermit ==
    semaphore.permits > 0 => Len(semaphore.waitQueue) = 0

\* C24 witness: on Semaphore(0) a queued acquire() was handed a permit by one
\* release(), and a further release() left a permit with nobody queued.
C24_Witness ==
    /\ maxConcurrent = 0 /\ Len(grantLog) = 1
    /\ semaphore.permits = 1 /\ Len(semaphore.waitQueue) = 0
    /\ \E t \in Tasks : op[t].with = "acquire" /\ pc[t] = "start"

\* A step in which task t calls acquireRead() / acquireWrite().
AcquireReadStep(t) == AcquireStep(t) /\ op[t].with = "withReadLock"
AcquireWriteStep(t) == AcquireStep(t) /\ op[t].with = "withWriteLock"

\* C25: acquireRead() grants at once and increments readers by one exactly
\* when no writer is active and the write queue is empty; otherwise the
\* caller is appended to the read queue and readers is unchanged, in
\* particular whenever a writer is waiting.
C25_AcquireRead ==
    [][\A t \in Tasks :
          AcquireReadStep(t) =>
             /\ IF ~rwLock.writer /\ Len(rwLock.writeWaitQueue) = 0
                THEN /\ t \in granted'
                     /\ rwLock'.readers = rwLock.readers + 1
                     /\ rwLock'.readWaitQueue = rwLock.readWaitQueue
                ELSE /\ t \notin granted'
                     /\ rwLock'.readers = rwLock.readers
                     /\ rwLock'.readWaitQueue = Append(rwLock.readWaitQueue, t)
             /\ Len(rwLock.writeWaitQueue) > 0 => t \notin granted'
             /\ rwLock'.writer = rwLock.writer
             /\ rwLock'.writeWaitQueue = rwLock.writeWaitQueue
      ]_vars

\* C25 witness: a read request is queued while only readers are active,
\* because a writer is waiting.
C25_Witness ==
    /\ Len(rwLock.readWaitQueue) > 0 /\ Len(rwLock.writeWaitQueue) > 0
    /\ ~rwLock.writer /\ rwLock.readers > 0

\* A step in which some task's withWriteLock runs `finally { releaseWrite() }`.
ReleaseWriteStep ==
    \E t \in Tasks : op[t].with = "withWriteLock" /\ pc[t] = "settled" /\ pc'[t] = "done"

\* C26: releaseWrite() with a non-empty write queue grants exactly the head
\* writer, keeps writer active and grants no queued reader; with an empty
\* write queue it drains the whole read queue in one step: every drained
\* reader is granted, readers is the number drained, writer is false and the
\* read queue is empty.
C26_ReleaseWrite ==
    [][ReleaseWriteStep =>
          IF Len(rwLock.writeWaitQueue) > 0
          THEN /\ granted' = granted \cup {Head(rwLock.writeWaitQueue)}
               /\ rwLock'.writer
               /\ rwLock'.writeWaitQueue = Tail(rwLock.writeWaitQueue)
               /\ rwLock'.readWaitQueue = rwLock.readWaitQueue
               /\ rwLock'.readers = 0
          ELSE /\ granted' = granted \cup Range(rwLock.readWaitQueue)
               /\ rwLock'.readers = Len(rwLock.readWaitQueue)
               /\ ~rwLock'.writer
               /\ rwLock'.readWaitQueue = << >>
               /\ rwLock'.writeWaitQueue = << >>
      ]_vars

\* C26 witness: a writer has released and handed the lock to a queued
\* writer, while a reader that had queued before that writer is still queued.
C26_Witness ==
    \E v, w, r \in Tasks :
        /\ op[v].with = "withWriteLock" /\ pc[v] = "done"
        /\ w \in granted /\ w \in Range(waitLog) /\ rwLock.writer
        /\ r \in Range(rwLock.readWaitQueue) /\ w \notin behind[r]

\* A step in which some task's withReadLock runs `finally { releaseRead() }`.
ReleaseReadStep ==
    \E t \in Tasks : op[t].with = "withReadLock" /\ pc[t] = "settled" /\ pc'[t] = "done"

\* C27: releaseRead() decrements readers by one; it grants the head of the
\* write queue (writer active, removed from the queue) exactly when readers
\* reaches 0 and the write queue is non-empty; while other readers are
\* active it grants nobody; it never grants a queued reader.
C27_ReleaseRead ==
    [][ReleaseReadStep =>
          /\ rwLock'.readers = rwLock.readers - 1
          /\ rwLock'.readWaitQueue = rwLock.readWaitQueue
          /\ IF rwLock.readers = 1 /\ Len(rwLock.writeWaitQueue) > 0
             THEN /\ granted' = granted \cup {Head(rwLock.writeWaitQueue)}
                  /\ rwLock'.writer
                  /\ rwLock'.writeWaitQueue = Tail(rwLock.writeWaitQueue)
             ELSE /\ granted' = granted
                  /\ rwLock'.writer = rwLock.writer
                  /\ rwLock'.writeWaitQueue = rwLock.writeWaitQueue
      ]_vars

\* C27 witness: one reader has released while another still reads, and the
\* queued writer has not been granted.
C27_Witness ==
    /\ \E r \in Tasks : op[r].with = "withReadLock" /\ pc[r] = "done"
    /\ rwLock.readers = 1
    /\ ~rwLock.writer
    /\ Len(rwLock.writeWaitQueue) > 0
    /\ granted = {}

\* C28: writers are granted in the order they called acquireWrite(): a
\* writer is granted at once only if no writer is active and readers = 0,
\* whenever that holds the write queue is empty, and a queued writer is
\* granted only after every writer that queued before it.
C28_WritersInOrder ==
    [][/\ ~rwLock'.writer /\ rwLock'.readers = 0 => rwLock'.writeWaitQueue = << >>
       /\ \A t \in Tasks :
             AcquireWriteStep(t) =>
                /\ t \in granted' <=> ~rwLock.writer /\ rwLock.readers = 0
                /\ t \in granted' => rwLock.writeWaitQueue = << >>
                /\ t \notin granted' => waitLog' = Append(waitLog, t)
       /\ \A w \in granted' \ granted :
             op[w].with = "withWriteLock" =>
                \A i, j \in 1..Len(waitLog) :
                    i < j /\ waitLog[j] = w =>
                        waitLog[i] \notin Range(rwLock.writeWaitQueue)
      ]_vars

\* C28 witness: of two queued writers the one that called first has been
\* granted and the later one is still queued.
C28_Witness ==
    /\ Len(waitLog) = 2
    /\ waitLog[1] \in granted
    /\ rwLock.writeWaitQueue = << waitLog[2] >>

\* C29: under paired use readers is never negative and equals the number of
\* tasks whose read request has been granted (at once, or by the
\* releaseWrite() that drained them) and that have not yet released; writer
\* is true exactly when one task has been granted the write lock and has not
\* yet called releaseWrite().
C29_CountersMatchHolders ==
    /\ rwLock.readers >= 0
    /\ rwLock.readers = Cardinality(Holders("withReadLock"))
    /\ rwLock.writer <=> Cardinality(Holders("withWriteLock")) = 1
    /\ ~rwLock.writer <=> Holders("withWriteLock") = {}

\* C29 witness: a writer has released and drained two queued readers, which
\* are counted although neither has resumed yet.
C29_Witness ==
    /\ \E v \in Tasks : op[v].with = "withWriteLock" /\ pc[v] = "done"
    /\ rwLock.readers = 2
    /\ Cardinality({t \in granted : op[t].with = "withReadLock" /\ pc[t] = "acquiring"}) = 2

\* C30: no wake-up is lost: under paired use a non-empty read queue implies
\* a writer is active or the write queue is non-empty, a non-empty write
\* queue implies a writer is active or readers > 0, and no request is queued
\* while the lock is completely idle.
C30_NoLostWakeUp ==
    /\ Len(rwLock.readWaitQueue) > 0 =>
          rwLock.writer \/ Len(rwLock.writeWaitQueue) > 0
    /\ Len(rwLock.writeWaitQueue) > 0 =>
          rwLock.writer \/ rwLock.readers > 0
    /\ ~rwLock.writer /\ rwLock.readers = 0 =>
          Len(rwLock.readWaitQueue) = 0 /\ Len(rwLock.writeWaitQueue) = 0

\* C30 witness: the last reader has released and handed the lock to the
\* queued writer, behind which another reader still waits.
C30_Witness ==
    /\ \E r \in Tasks : op[r].with = "withReadLock" /\ pc[r] = "done"
    /\ rwLock.writer
    /\ \E w \in granted : w \in Range(waitLog)
    /\ Len(rwLock.readWaitQueue) > 0

\* C31: in a finite workload of tasks that each acquire once, run a
\* terminating critical section and release once (on a Mutex, a Semaphore
\* with N >= 1, or readers and writers on a ReadWriteLock), every task is
\* eventually granted and completes, and the primitive ends as constructed:
\* Mutex free, permits = N, readers = 0, writer false, all queues empty.
C31_AllComplete ==
    <>[](/\ AllDone
         /\ \A t \in Tasks : releases[t] = 1
         /\ Idle)

\* C31 witness: a mix of readers and writers, some of which had to wait, is
\* through and the lock is as constructed.
C31_Witness ==
    /\ AllDone /\ Idle
    /\ \E t, u \in Tasks : op[t].with = "withReadLock" /\ op[u].with = "withWriteLock"
    /\ Len(waitLog) > 0

\* C32: reader starvation is possible under a continuous writer backlog:
\* when another writer is already queued whenever the active writer calls
\* releaseWrite(), every holder releases again and again, the lock goes from
\* writer to writer, and a queued reader stays queued for ever.
C32_ReaderStarves ==
    /\ [][\A r \in Tasks :
             r \in Range(rwLock.readWaitQueue) =>
                r \in Range(rwLock'.readWaitQueue) /\ r \notin granted']_vars
    /\ \A t \in 1..RWTasks : Holding(t) ~> ~Holding(t)
    /\ \A w \in 1..RWTasks :
          (w \in Range(rwLock.writeWaitQueue)) ~> (w \in granted)

\* C32 witness: a reader is still queued although every writer call now in
\* progress queued after the reader did, and one of them holds the lock.
C32_Witness ==
    \E r \in Range(rwLock.readWaitQueue) :
        /\ \A w \in Tasks :
              op[w].with = "withWriteLock" => w \in Range(waitLog) /\ w \notin behind[r]
        /\ \E w \in Holders("withWriteLock") : pc[w] = "suspended"

\* C33: in the account class constructed with an initial balance, whose
\* transferTo calls this.withdraw() and target.deposit() while holding both
\* mutexes, every transfer between accounts with different names terminates
\* and releases both mutexes, so a batch of concurrent random transfers among
\* four accounts completes with the total of the balances unchanged.
C33_SimulationCompletes ==
    /\ AllDone \/ ENABLED NextSimulation
    /\ AllDone =>
          /\ \A a \in SimulationAccounts : mutex[a] = NewMutex
          /\ SumBalances(SimulationAccounts) = 4 * SimulationBalance

\* C34: transferTo locks in the same order for (A, B) and (B, A) for every
\* pair of distinct account objects, also two constructed with equal names:
\* concurrent A.transferTo(B) and B.transferTo(A) on such accounts never wait
\* for each other in a circle, and both complete.
C34_EqualNamesComplete ==
    /\ \A t, u \in Tasks :
          Opposite(t, u) =>
             \A a, b \in Namesakes :
                 ~(/\ HoldsMutex(t, a) /\ WaitsFor(t, b)
                   /\ HoldsMutex(u, b) /\ WaitsFor(u, a))
    /\ AllDone \/ ENABLED NextTransfers

\* The operations that give something back.
ReleaseOps == {"unlock", "release", "releaseRead", "releaseWrite"}

\* C35: no primitive operation raises: in every state each of lock, unlock,
\* acquire, release, acquireRead, releaseRead, acquireWrite and releaseWrite
\* can be called and completes, every callback a release resolves is a
\* queued caller's, a release-type call completes in the same step also
\* without a matching acquisition, and unlock() on a free Mutex with no
\* waiters leaves it free with an empty queue.
C35_NothingRaises ==
    /\ [](/\ granted \subseteq Tasks
          /\ \A t \in Tasks : pc[t] = "start" => ENABLED Call(t))
    /\ [][\A t \in Tasks :
             pc[t] = "start" /\ pc'[t] # "start" =>
                /\ op[t].with \in ReleaseOps => pc'[t] = "done"
                /\ op[t].with = "unlock" /\ mutex[TheMutex] = NewMutex =>
                      mutex'[TheMutex] = NewMutex /\ granted' = granted
         ]_vars

\* C35 witness: unlock() has been called and has completed on a Mutex that
\* nobody had locked, and the Mutex is free with an empty queue.
C35_Witness ==
    /\ \E t \in Tasks : op[t].with = "unlock" /\ pc[t] = "done"
    /\ \A u \in Tasks : op[u].with = "lock" => pc[u] = "start"
    /\ \E u \in Tasks : op[u].with = "lock"
    /\ mutex[TheMutex] = NewMutex

\* A step in which some task calls release() directly.
ReleaseCallStep ==
    \E t \in Tasks : op[t].with = "release" /\ pc[t] = "start" /\ pc'[t] = "done"

\* C36: release() without a matching acquire() adds capacity: after k such
\* calls on a Semaphore(N), permits plus the permits held is N + k, so an
\* idle semaphore without waiters has permits = N + k and up to N + k tasks
\* hold permits together; a release() that finds waiters grants the oldest
\* one instead and leaves permits as it is.
C36_ExtraReleaseAddsCapacity ==
    /\ [](/\ semaphore.permits + Cardinality(GrantedAcquires)
               = maxConcurrent + Cardinality(ReleaseCalls)
          /\ GrantedAcquires = {} =>
                semaphore.permits = maxConcurrent + Cardinality(ReleaseCalls)
          /\ Cardinality(GrantedAcquires) <= maxConcurrent + Cardinality(ReleaseCalls))
    /\ [][ReleaseCallStep =>
             IF Len(semaphore.waitQueue) > 0
             THEN /\ semaphore'.permits = semaphore.permits
                  /\ granted' = granted \cup {Head(semaphore.waitQueue)}
                  /\ semaphore'.waitQueue = Tail(semaphore.waitQueue)
             ELSE /\ semaphore'.permits = semaphore.permits + 1
                  /\ granted' = granted
                  /\ semaphore'.waitQueue = semaphore.waitQueue
         ]_vars

\* C36 witness: after two extra release() calls on Semaphore(1), none of
\* which found a waiter, two tasks hold permits together and one is left.
C36_Witness ==
    /\ maxConcurrent = 1
    /\ Cardinality(ReleaseCalls) = 2
    /\ Cardinality(GrantedAcquires) = 2
    /\ grantLog = << >> /\ waitLog = << >>
    /\ semaphore.permits = 1

\* The clients whose query is in progress on connection c.
Querying(c) == {t \in Tasks : pc[t] = "suspended" /\ connection[t] = c}

\* C37: in DatabaseConnectionPool no connection is used by two queries in
\* progress: permit holders pop distinct connections and push them back
\* before the permit is released, so query never throws "already in use",
\* and when all queries are through every connection is available again.
C37_ConnectionsNotShared ==
    /\ \A t, u \in Connected : t # u => connection[t] # connection[u]
    /\ \A t \in Connected : connection[t] \notin Range(availableConnections)
    /\ \A i, j \in 1..Len(availableConnections) :
          i # j => availableConnections[i] # availableConnections[j]
    /\ \A c \in 1..maxConcurrent :
          /\ Cardinality(Querying(c)) <= 1
          /\ inUse[c] <=> Querying(c) # {}
    /\ \A t \in Tasks :
          /\ result[t] # "threw"
          /\ pc[t] = "settled" =>
                \/ connection[t] \in Range(availableConnections)
                \/ \E u \in Connected : connection[u] = connection[t]
    /\ AllDone =>
          /\ Range(availableConnections) = 1..maxConcurrent
          /\ maxConcurrent - Len(availableConnections) = 0
          /\ \A c \in 1..maxConcurrent : ~inUse[c]

\* C37 witness: two queries are in progress on different connections, one of
\* them on a connection that an earlier query used and returned.
C37_Witness ==
    \E h, t, u \in Tasks :
        /\ pc[h] = "done"
        /\ pc[t] = "suspended" /\ pc[u] = "suspended" /\ t # u
        /\ connection[t] = connection[h]

\* C38: MutexDatabasePool.executeQueryWithMutex serializes all database
\* access: however many calls are made together, at most one query executes
\* at a time on the first connection and no call fails with the
\* connection's "already in use" error.
C38_MutexPoolSerializes ==
    /\ Cardinality(Querying(1)) <= 1
    /\ \A t \in Tasks : result[t] # "threw"

\* The balance after the first n operations of ops, run one after another.
RECURSIVE SequentialBalance(_, _)
SequentialBalance(ops, n) ==
    IF n = 0 THEN 0
    ELSE LET before == SequentialBalance(ops, n - 1)
         IN  IF ops[n].fn = "deposit" THEN before + ops[n].arg
             ELSE IF before >= ops[n].arg THEN before - ops[n].arg
             ELSE before

\* Task t has entered its critical section.
Entered(t) == pc[t] \in {"suspended", "settled", "done"}

\* The withdrawals that returned true: they read the balance inside the
\* branch taken when it covers the amount.
SuccessfulWithdrawals ==
    {t \in Tasks : op[t].fn = "withdraw" /\ pc[t] = "done" /\ current[t] >= op[t].arg}

\* C39: operations started back-to-back on one mutex-protected account
\* enter their critical sections in start order, the first being granted at
\* once, so the result is that of running them one after another in that
\* order: deposit 100, deposit 50, withdraw 30, deposit 25, withdraw 20 on an
\* empty account gives two successful withdrawals and a balance of 125.
C39_StartOrder ==
    /\ AllStarted =>
          /\ waitLog = [i \in 1..(Len(op) - 1) |-> i + 1]
          /\ 1 \in granted \/ Entered(1)
    /\ \A t, u \in Tasks : t < u /\ Entered(u) => pc[t] = "done"
    /\ \A t \in Tasks :
          pc[t] = "done" =>
             /\ counter = SequentialBalance(op, t)
                   \/ \E u \in Tasks : u > t /\ Entered(u)
             /\ op[t].fn = "withdraw" =>
                   (t \in SuccessfulWithdrawals
                       <=> SequentialBalance(op, t - 1) >= op[t].arg)
    /\ AllDone =>
          /\ counter = SequentialBalance(op, Len(op))
          /\ op = AccountOperations =>
                counter = 125 /\ Cardinality(SuccessfulWithdrawals) = 2

\* C39 witness: the five operations of the example are through, both
\* withdrawals succeeded and the balance is 125.
C39_Witness ==
    /\ op = AccountOperations /\ AllDone
    /\ counter = 125
    /\ Cardinality(SuccessfulWithdrawals) = 2

\* The accounts the operation of task t is about.
Involved(t) == {op[t].from, op[t].to}

\* C40: primitive instances are independent: a transferTo between A and B
\* acquires only A's and B's mutexes and changes only A's and B's balances;
\* a third account's balance, lock state and wait queue are unchanged by it,
\* and a deposit or withdraw on that account is never delayed by it: a mutex
\* is held and waited for only by operations on its own account, and a call
\* that finds no such operation holding it is granted at once.
C40_InstancesIndependent ==
    /\ [](\A c \in AllAccounts :
             /\ mutex[c].locked <=> \E u \in Tasks : HoldsMutex(u, c)
             /\ \A u \in Tasks :
                   HoldsMutex(u, c) \/ u \in Range(mutex[c].waitQueue) => c \in Involved(u))
    /\ [][\A t \in Tasks :
             pc'[t] # pc[t] =>
                /\ \A c \in AllAccounts \ Involved(t) :
                      mutex'[c] = mutex[c] /\ balance'[c] = balance[c]
                /\ \A u \in granted' \ granted : Involved(u) \cap Involved(t) # {}
                /\ pc[t] = "start" /\ pc'[t] = "acquiring"
                      /\ (\A u \in Tasks : op[t].from \notin Involved(u) \/ u = t) =>
                         t \in granted'
         ]_vars

\* C40 witness: a transfer holds the mutexes of its two accounts while a
\* deposit or withdraw on the third account has been granted that account's
\* mutex at once.
C40_Witness ==
    \E t, u \in Tasks :
        /\ op[t].with = "transferTo" /\ pc[t] = "inner" /\ result[t] = "success"
        /\ op[u].with \in {"deposit", "withdraw"} /\ op[u].from \notin Involved(t)
        /\ pc[u] = "acquiring" /\ u \in granted
        /\ mutex[op[u].from].locked

====
